---- MODULE Spec2Model ----
(***************************************************************************)
(* A model of anymalign.py (Anymalign 2.5): the sampling-based multilingual *)
(* phrase aligner.  The module models                                       *)
(*   - Aligner.set_corpus   (vocabulary, word ids sorted by frequency),     *)
(*   - Aligner.align        (extraction of alignments from a subcorpus),    *)
(*   - Aligner.run          (main sampling loop, boundary corrections),     *)
(*   - Aligner.__init__     (reading and checking the input files),         *)
(*   - Aligner._dummy_weight and Aligner._lexical_weight (with CoocDB),     *)
(*   - Distribution         (the distribution of subcorpus sizes),          *)
(*   - set_proba            (three-pass frequency sort and probabilities),  *)
(*   - merge                (merge mode).                                   *)
(*                                                                         *)
(* Specifications:                                                          *)
(*   SpecAlign  one align call on a loaded corpus,                          *)
(*   SpecLex    set_corpus on some lines, one align call, the weight        *)
(*              function with or without -w,                                *)
(*   SpecRun    align mode, from the command line to the output,            *)
(*   SpecMerge  merge mode,                                                 *)
(*   Spec       the program in either mode.                                 *)
(*                                                                         *)
(* Text is modelled as sequences of tokens whose concatenation is the       *)
(* text: a word is one token, a separator (" ", "\t") is one token, and a   *)
(* number is written digit by digit.  Python's hash() of a string is        *)
(* modelled as collision free (the string is its own hash): the program     *)
(* documents collisions as a negligible approximation.  Word ids are        *)
(* 0-based as in the program; sequences are 1-based, so the word of id w    *)
(* is allWords[w + 1].  The output formats other than plain text are not    *)
(* modelled; frequencies of merge input are positive.  The writer of the    *)
(* output is modelled by the calls it receives; one of its write calls may  *)
(* raise IOError, which ends set_proba with the output cut short.           *)
(***************************************************************************)
EXTENDS Integers, Sequences, FiniteSets, TLC

(***************************************************************************)
(* Generic helpers                                                          *)
(***************************************************************************)
Range(s) == {s[i] : i \in DOMAIN s}

\* A faulty variant of max: the least element.
Smallest(S) == CHOOSE x \in S : \A y \in S : x <= y

Max(S) == CHOOSE x \in S : \A y \in S : y <= x

Min(S) == CHOOSE x \in S : \A y \in S : x <= y

RECURSIVE ConcatAll(_)
ConcatAll(ss) == IF ss = <<>> THEN <<>> ELSE Head(ss) \o ConcatAll(Tail(ss))

RECURSIVE SumSeq(_)
SumSeq(s) == IF s = <<>> THEN 0 ELSE Head(s) + SumSeq(Tail(s))

\* The elements of a finite set of integers, in ascending order.
RECURSIVE SortedSeq(_)
SortedSeq(S) == IF S = {} THEN <<>> ELSE <<Min(S)>> \o SortedSeq(S \ {Min(S)})

\* Keep the first occurrence of every element of a sequence.
RECURSIVE FirstSight(_, _)
FirstSight(occs, seen) ==
    IF occs = <<>> THEN seen
    ELSE FirstSight(Tail(occs),
                    IF Head(occs) \in Range(seen) THEN seen
                    ELSE Append(seen, Head(occs)))

IndexOf(s, x) == CHOOSE i \in DOMAIN s : s[i] = x

\* sep.join(parts): parts is a sequence of token sequences.
RECURSIVE Join(_, _)
Join(sep, parts) ==
    IF parts = <<>> THEN <<>>
    ELSE IF Len(parts) = 1 THEN parts[1]
    ELSE parts[1] \o <<sep>> \o Join(sep, Tail(parts))

\* s.split(sep): the pieces between the occurrences of token sep.
RECURSIVE SplitAcc(_, _, _, _)
SplitAcc(s, sep, cur, maxsplit) ==
    IF s = <<>> THEN <<cur>>
    ELSE IF Head(s) = sep /\ maxsplit # 0
         THEN <<cur>> \o SplitAcc(Tail(s), sep, <<>>, maxsplit - 1)
         ELSE SplitAcc(Tail(s), sep, Append(cur, Head(s)), maxsplit)

\* s.split(sep, maxsplit); a negative maxsplit means no limit.
Split(s, sep, maxsplit) == SplitAcc(s, sep, <<>>, maxsplit)

\* len() of a string given as a sequence of tokens.
StrLen(toks) == SumSeq([i \in 1..Len(toks) |-> Len(toks[i])])

\* hash() of a string: collision free.
Hash(toks) == toks

(***************************************************************************)
(* Hexadecimal notation of word ids: hex(w)[2:] and int(word, 16)           *)
(***************************************************************************)
HexDigits == <<"0", "1", "2", "3", "4", "5", "6", "7",
               "8", "9", "a", "b", "c", "d", "e", "f">>

RECURSIVE Hex(_)
Hex(n) == IF n < 16 THEN <<HexDigits[n + 1]>>
          ELSE Hex(n \div 16) \o <<HexDigits[(n % 16) + 1]>>

RECURSIVE IntHex(_)
IntHex(cs) == IF Len(cs) = 1 THEN IndexOf(HexDigits, cs[1]) - 1
              ELSE 16 * IntHex(SubSeq(cs, 1, Len(cs) - 1))
                   + (IndexOf(HexDigits, cs[Len(cs)]) - 1)

\* phrase.split(): the maximal runs of non-blank characters of a string.
RECURSIVE Words(_, _)
Words(cs, cur) ==
    IF cs = <<>> THEN (IF cur = <<>> THEN <<>> ELSE <<cur>>)
    ELSE IF Head(cs) \in {" ", "\t", "\n"}
         THEN (IF cur = <<>> THEN <<>> ELSE <<cur>>) \o Words(Tail(cs), <<>>)
         ELSE Words(Tail(cs), Append(cur, Head(cs)))

(***************************************************************************)
(* Input corpus.  files is a sequence of files, a file is a sequence of     *)
(* lines, a line is a sequence of columns (one per language, split on       *)
(* "\t"), a column is the sequence of its words (sentence.split()).         *)
(***************************************************************************)
\* Columns of a file: those of its first line (fileLanguages).
FileLanguages(f) == IF f = <<>> THEN 0 ELSE Len(f[1])

\* nbLanguagesDone when file number f is read.
LangsBefore(files, f) == SumSeq([g \in 1..(f - 1) |-> FileLanguages(files[g])])

NbLanguagesOf(files) == LangsBefore(files, Len(files) + 1)

ColumnOccs(col, lang) == [k \in 1..Len(col) |-> <<lang, col[k]>>]

LineOccs(tline, base) ==
    ConcatAll([c \in 1..Len(tline) |-> ColumnOccs(tline[c], base + c - 1)])

\* The (language, word) occurrences in the order set_corpus reads them:
\* file after file, and in a file the selected lines in order.
AllOccs(files, lines) ==
    ConcatAll([f \in 1..Len(files) |->
        ConcatAll([i \in 1..Len(lines) |->
            LineOccs(files[f][lines[i] + 1], LangsBefore(files, f))])])

\* Word ids by first sight, per language: allWords and wordLanguages before
\* the reordering, as a sequence of <<language, word>>.
FirstSightVocabulary(files, lines) == FirstSight(AllOccs(files, lines), <<>>)

\* self.corpus before the reordering: line i holds the first-sight ids of
\* its words, the columns of all files in order.
FirstSightCorpus(files, lines, vocab) ==
    [i \in 1..Len(lines) |->
        ConcatAll([f \in 1..Len(files) |->
            LET occs == LineOccs(files[f][lines[i] + 1], LangsBefore(files, f))
            IN  [k \in 1..Len(occs) |-> IndexOf(vocab, occs[k]) - 1]])]

\* wordFreq[w]: the number of loaded lines that contain w.
CountLines(corpus, nbWords) ==
    [w \in 1..nbWords |->
        Cardinality({l \in 1..Len(corpus) : (w - 1) \in Range(corpus[l])})]

\* A faulty variant of the sort: ids of equal frequency end in reverse order.
RECURSIVE InsertByFreqStrict(_, _, _)
InsertByFreqStrict(s, x, freq) ==
    IF s = <<>> THEN <<x>>
    ELSE IF freq[Head(s) + 1] > freq[x + 1]
         THEN <<Head(s)>> \o InsertByFreqStrict(Tail(s), x, freq)
         ELSE <<x>> \o s

\* sorted(xrange(n), key=freq.__getitem__, reverse=True): a stable sort, the
\* ids of equal frequency keep their order.
RECURSIVE InsertByFreq(_, _, _)
InsertByFreq(s, x, freq) ==
    IF s = <<>> THEN <<x>>
    ELSE IF freq[Head(s) + 1] >= freq[x + 1]
         THEN <<Head(s)>> \o InsertByFreq(Tail(s), x, freq)
         ELSE <<x>> \o s

RECURSIVE SortedByFreqUpTo(_, _)
SortedByFreqUpTo(n, freq) ==
    IF n = 0 THEN <<>>
    ELSE InsertByFreq(SortedByFreqUpTo(n - 1, freq), n - 1, freq)

SortedByFreq(freq) == SortedByFreqUpTo(Len(freq), freq)

\* list.sort(reverse=True) of a list of integers.
RECURSIVE InsertDesc(_, _)
InsertDesc(s, x) ==
    IF s = <<>> THEN <<x>>
    ELSE IF Head(s) >= x THEN <<Head(s)>> \o InsertDesc(Tail(s), x)
         ELSE <<x>> \o s

RECURSIVE SortDesc(_)
SortDesc(s) == IF s = <<>> THEN <<>>
               ELSE InsertDesc(SortDesc(SubSeq(s, 1, Len(s) - 1)), s[Len(s)])

\* The words of one language in a line of word ids.
Sentence(line, lang, wordLanguages) ==
    SelectSeq(line, LAMBDA w : wordLanguages[w + 1] = lang)

\* s[i:i+n] for i in xrange(len(s) + 1 - n)
NgramsOf(s, n) == [i \in 1..(Len(s) + 1 - n) |-> SubSeq(s, i, i + n - 1)]

LineNgrams(line, n, wordLanguages, nbLanguages) ==
    ConcatAll([l \in 1..nbLanguages |->
                  NgramsOf(Sentence(line, l - 1, wordLanguages), n)])

\* self.allNgrams[n-2]: the n-grams of the loaded lines by first sight.
AllNgramsOf(corpus, n, wordLanguages, nbLanguages) ==
    FirstSight(ConcatAll([i \in 1..Len(corpus) |->
                   LineNgrams(corpus[i], n, wordLanguages, nbLanguages)]), <<>>)

\* self.ngramCorpora[n-2]: per line the sorted ids of its n-grams.
NgramCorpusOf(corpus, n, wordLanguages, nbLanguages, ngrams) ==
    [i \in 1..Len(corpus) |->
        SortedSeq({IndexOf(ngrams, g) - 1 :
                   g \in Range(LineNgrams(corpus[i], n, wordLanguages,
                                          nbLanguages))})]

\* Aligner.set_corpus(lines): the subcorpus loaded into memory.  delimiter
\* is "" when no delimiter is configured (self.delimiter is None).
SetCorpus(files, lines, delimiter, indexN) ==
    LET nbLanguages == NbLanguagesOf(files)
        vocab == FirstSightVocabulary(files, lines)
        corpus0 == FirstSightCorpus(files, lines, vocab)
        freq0 == CountLines(corpus0, Len(vocab))
        \* Add discontinuity delimiter
        words1 == [i \in 1..Len(vocab) |-> vocab[i][2]] \o <<delimiter>>
        langs1 == [i \in 1..Len(vocab) |-> vocab[i][1]] \o <<nbLanguages>>
        freq1 == freq0 \o <<Max(Range(freq0)) + 1>>
        \* Reassign word ids: smallest id for most frequent word
        sortedByFreq == SortedByFreq(freq1)
        newPos == [w \in 1..Len(words1) |-> IndexOf(sortedByFreq, w - 1) - 1]
        wl == [i \in 1..Len(words1) |-> langs1[sortedByFreq[i] + 1]]
        corpus == [i \in 1..Len(corpus0) |->
                      [k \in 1..Len(corpus0[i]) |-> newPos[corpus0[i][k] + 1]]]
        ngrams == [n \in 2..indexN |-> AllNgramsOf(corpus, n, wl, nbLanguages)]
    IN  [corpus |-> corpus,
         allWords |-> [i \in 1..Len(words1) |-> words1[sortedByFreq[i] + 1]],
         wordLanguages |-> wl,
         wordFreq |-> SortDesc(freq1),
         allNgrams |-> ngrams,
         ngramCorpora |-> [n \in 2..indexN |->
             NgramCorpusOf(corpus, n, wl, nbLanguages, ngrams[n])]]

(***************************************************************************)
(* Aligner.align(lineIds, outputFile, weight)                               *)
(*                                                                         *)
(* mem is the loaded subcorpus (the record SetCorpus returns), opt the      *)
(* options of the run, lineIds a sequence of line ids of mem.corpus.  The   *)
(* candidates that pass the filters are computed as a sequence of           *)
(* "productions", in the order in which align reaches lines 1219-1233.      *)
(* Dictionaries are iterated in insertion order.                            *)
(***************************************************************************)
\* A faulty variant of word_ap: a line id is added only when it is greater
\* than the last one.
RECURSIVE WordApAscending(_, _, _, _)
WordApAscending(word, lineIds, corpus, vec) ==
    IF lineIds = <<>> THEN vec
    ELSE LET lineId == Head(lineIds)
         IN  WordApAscending(word, Tail(lineIds), corpus,
                    IF /\ word \in Range(corpus[lineId + 1])
                       /\ (vec = <<>> \/ vec[Len(vec)] < lineId)
                    THEN Append(vec, lineId) ELSE vec)

\* word_ap[word] (lines 1140-1144): the line ids on which word appears.
RECURSIVE WordAp(_, _, _, _)
WordAp(word, lineIds, corpus, vec) ==
    IF lineIds = <<>> THEN vec
    ELSE LET lineId == Head(lineIds)
         IN  WordAp(word, Tail(lineIds), corpus,
                    IF /\ word \in Range(corpus[lineId + 1])
                       /\ (vec = <<>> \/ vec[Len(vec)] # lineId)
                    THEN Append(vec, lineId) ELSE vec)

\* ngram_ap[ngram] (lines 1152-1154).
NgramAp(ngram, lineIds, ngramCorpus) ==
    SelectSeq(lineIds, LAMBDA lineId : ngram \in Range(ngramCorpus[lineId + 1]))

\* vec_word.setdefault(linesAp, set()).update(words)
VecWordAdd(vw, linesAp, words) ==
    IF \E i \in 1..Len(vw) : vw[i].linesAp = linesAp
    THEN [i \in 1..Len(vw) |->
             IF vw[i].linesAp = linesAp
             THEN [linesAp |-> linesAp, wordSet |-> vw[i].wordSet \cup words]
             ELSE vw[i]]
    ELSE Append(vw, [linesAp |-> linesAp, wordSet |-> words])

\* Lines 1146-1147: group the words by the lines they appear on.
RECURSIVE GroupWords(_, _, _, _)
GroupWords(vw, words, lineIds, corpus) ==
    IF words = <<>> THEN vw
    ELSE GroupWords(VecWordAdd(vw, WordAp(Head(words), lineIds, corpus, <<>>),
                               {Head(words)}),
                    Tail(words), lineIds, corpus)

\* Lines 1155-1157: add the words of the n-grams to the groups.
RECURSIVE GroupNgrams(_, _, _, _, _)
GroupNgrams(vw, ngramIds, lineIds, ngramCorpus, ngrams) ==
    IF ngramIds = <<>> THEN vw
    ELSE GroupNgrams(VecWordAdd(vw, NgramAp(Head(ngramIds), lineIds, ngramCorpus),
                                Range(ngrams[Head(ngramIds) + 1])),
                     Tail(ngramIds), lineIds, ngramCorpus, ngrams)

\* The ids of the words (of the n-grams) of the lines lineIds, ascending.
UnitsOf(lineIds, lineUnits) ==
    SortedSeq(UNION {Range(lineUnits[lineIds[i] + 1]) : i \in 1..Len(lineIds)})

\* vec_word when the groups of order n have been added (lines 1131-1157):
\* vec_word is created once, before the loop over n.
RECURSIVE VecWord(_, _, _)
VecWord(mem, lineIds, n) ==
    IF n = 1
    THEN GroupWords(<<>>, UnitsOf(lineIds, mem.corpus), lineIds, mem.corpus)
    ELSE GroupNgrams(VecWord(mem, lineIds, n - 1),
                     UnitsOf(lineIds, mem.ngramCorpora[n]), lineIds,
                     mem.ngramCorpora[n], mem.allNgrams[n])

\* perfect[l] (inSet) or context[l] (~inSet): word positions of language l.
Positions(words, lang, wordSet, wordLanguages, inSet) ==
    SelectSeq([p \in 1..Len(words) |-> p - 1],
              LAMBDA p : /\ wordLanguages[words[p + 1] + 1] = lang
                         /\ (words[p + 1] \in wordSet) = inSet)

\* A faulty variant of the filters: the contiguity test is left out.
FilterPhraseLengthOnly(phrase, contiguous, minSize, maxSize) ==
    IF ~(minSize <= Len(phrase) /\ Len(phrase) <= maxSize) THEN <<>> ELSE phrase

\* Lines 1193-1200: the contiguity and length filters on one phrase.
FilterPhrase(phrase, contiguous, minSize, maxSize) ==
    IF contiguous /\ phrase # <<>>
       /\ phrase[Len(phrase)] - phrase[1] # Len(phrase) - 1
    THEN <<>>
    ELSE IF ~(minSize <= Len(phrase) /\ Len(phrase) <= maxSize)
    THEN <<>>
    ELSE phrase

\* A faulty variant of the language test: <= in place of <.
EnoughLanguagesStrict(candidate, minLanguages) ==
    ~(Cardinality({l \in 1..Len(candidate) : candidate[l] # <<>>}) <= minLanguages)

\* Lines 1205-1206: languages with a non-empty phrase against minLanguages.
EnoughLanguages(candidate, minLanguages) ==
    ~(Cardinality({l \in 1..Len(candidate) : candidate[l] # <<>>}) < minLanguages)

\* A faulty variant of the insertion: id 0 between any two words.
RECURSIVE NewPhraseAlways(_, _, _, _)
NewPhraseAlways(phrase, words, delimiter, prev) ==
    IF phrase = <<>> THEN <<>>
    ELSE LET wordPos == Head(phrase)
         IN  (IF delimiter # "" /\ prev # -1 THEN <<0>> ELSE <<>>)
             \o <<words[wordPos + 1]>>
             \o NewPhraseAlways(Tail(phrase), words, delimiter, wordPos)

\* Lines 1208-1217: word ids of a phrase, with id 0 where positions jump.
RECURSIVE NewPhrase(_, _, _, _)
NewPhrase(phrase, words, delimiter, prev) ==
    IF phrase = <<>> THEN <<>>
    ELSE LET wordPos == Head(phrase)
         IN  (IF delimiter # "" /\ prev # -1 /\ wordPos # prev + 1
              THEN <<0>> ELSE <<>>)
             \o <<words[wordPos + 1]>>
             \o NewPhrase(Tail(phrase), words, delimiter, wordPos)

\* Line 1219: stringToPrint, the characters written to the temporary file.
StringToPrint(candidate) ==
    Join("\t", [l \in 1..Len(candidate) |->
        Join(" ", [k \in 1..Len(candidate[l]) |-> Hex(candidate[l][k])])])

\* Line 1222: alString, the alignment as a string of words.
AlString(candidate, allWords) ==
    Join("\t", [l \in 1..Len(candidate) |->
        Join(" ", [k \in 1..Len(candidate[l]) |->
                      <<allWords[candidate[l][k] + 1]>>])])

\* One candidate (perfect or context) of one line: lines 1190-1224.
CandidateProductions(mem, opt, lineId, wordSet, inSet) ==
    LET words == mem.corpus[lineId + 1]
        nbL == Len(opt.contiguousFields)
        positions == [l \in 1..nbL |->
            FilterPhrase(Positions(words, l - 1, wordSet, mem.wordLanguages, inSet),
                         opt.contiguousFields[l], opt.minSize, opt.maxSize)]
        candidate == [l \in 1..nbL |->
            NewPhrase(positions[l], words, opt.delimiter, -1)]
    IN  IF EnoughLanguages(positions, opt.minLanguages)
        THEN <<[stringToPrint |-> StringToPrint(candidate),
                alString |-> AlString(candidate, mem.allWords),
                candidate |-> candidate,
                positions |-> positions,
                lineId |-> lineId,
                perfect |-> inSet]>>
        ELSE <<>>

\* Lines 1165-1175: is the group skipped?
GroupKept(wordSet, opt, wordLanguages) ==
    /\ ~(Cardinality(wordSet) < opt.minLanguages + opt.minSize - 1)
    /\ ~(Cardinality({wordLanguages[w + 1] : w \in wordSet}) < opt.minLanguages)

\* Lines 1163-1233 for one pass over vec_word.
GroupsProductions(mem, opt, vw) ==
    ConcatAll([g \in 1..Len(vw) |->
        IF GroupKept(vw[g].wordSet, opt, mem.wordLanguages)
        THEN ConcatAll([k \in 1..Len(vw[g].linesAp) |->
                 CandidateProductions(mem, opt, vw[g].linesAp[k],
                                      vw[g].wordSet, TRUE)
                 \o CandidateProductions(mem, opt, vw[g].linesAp[k],
                                         vw[g].wordSet, FALSE)])
        ELSE <<>>])

\* All productions of one align call, for n = 1 .. indexN (line 1134).
Productions(mem, opt, lineIds) ==
    ConcatAll([n \in 1..opt.indexN |->
                  GroupsProductions(mem, opt, VecWord(mem, lineIds, n))])

(***************************************************************************)
(* The frequency store self.counts, the temporary file of a run and the     *)
(* running count self.nbAlignments: lines 1225-1233 of align.               *)
(* counts maps <<len(alString), hash(alString)>> to a frequency.            *)
(***************************************************************************)
Key(alString) == <<StrLen(alString), Hash(alString)>>

\* bucket[alHash] = weight (line 1229)
StoreNew(cnt, key, weight) == (key :> weight) @@ cnt

\* A faulty variant of the update: the weight replaces the frequency.
StoreOverwrite(cnt, key, weight) == [cnt EXCEPT ![key] = weight]

\* bucket[alHash] = alFreq + weight (line 1233)
StoreAdd(cnt, key, weight) == [cnt EXCEPT ![key] = @ + weight]

\* Lines 1225-1233 for one production; st = [counts, tmpFile, nbAlignments].
RecordProduction(st, p, weight) ==
    LET key == Key(p.alString)
    IN  IF key \notin DOMAIN st.counts
        THEN [counts |-> StoreNew(st.counts, key, weight),
              tmpFile |-> Append(st.tmpFile, p.stringToPrint),
              nbAlignments |-> st.nbAlignments + 1]
        ELSE [st EXCEPT !.counts = StoreAdd(st.counts, key, weight)]

\* A whole align call: every production recorded, in order.
RECURSIVE RecordAll(_, _, _)
RecordAll(st, prods, weight) ==
    IF prods = <<>> THEN st
    ELSE RecordAll(RecordProduction(st, Head(prods), weight), Tail(prods), weight)

(***************************************************************************)
(* Strings of the record store and of the output.  A line is a sequence of  *)
(* tokens whose concatenation is the text of the line (without its "\n"):   *)
(* a word is one token, a separator (" " or "\t") is one token, and a       *)
(* number is written digit by digit.                                        *)
(***************************************************************************)
Reverse(s) == [i \in 1..Len(s) |-> s[Len(s) + 1 - i]]

\* s.rsplit(sep, maxsplit)
RSplit(s, sep, maxsplit) ==
    LET r == Split(Reverse(s), sep, maxsplit)
    IN  [i \in 1..Len(r) |-> Reverse(r[Len(r) + 1 - i])]

\* s.count(sep)
Count(s, sep) == Cardinality({i \in 1..Len(s) : s[i] = sep})

\* "%i" % n and int(s) for n >= 0
RECURSIVE Dec(_)
Dec(n) == IF n < 10 THEN <<HexDigits[n + 1]>>
          ELSE Dec(n \div 10) \o <<HexDigits[(n % 10) + 1]>>

RECURSIVE IntDec(_)
IntDec(cs) == IF Len(cs) = 1 THEN IndexOf(HexDigits, cs[1]) - 1
              ELSE 10 * IntDec(SubSeq(cs, 1, Len(cs) - 1))
                   + (IndexOf(HexDigits, cs[Len(cs)]) - 1)

\* The six decimals of "%f".
Decimals6(n) == [i \in 1..6 |-> HexDigits[((n \div (10 ^ (6 - i))) % 10) + 1]]

\* "%f" % (1. * freq / marginal): the quotient rounded to six decimals.  No
\* quotient of the model lies half way between two six-decimal numbers
\* (that needs a marginal that is a multiple of 128 or of 78125).
MicroProba(freq, marginal) == (2 * 1000000 * freq + marginal) \div (2 * marginal)

FormatProba(freq, marginal) ==
    LET q == MicroProba(freq, marginal)
    IN  Dec(q \div 1000000) \o <<".">> \o Decimals6(q % 1000000)

(***************************************************************************)
(* Aligner._dummy_weight(inputFile): lines 1244-1250                        *)
(***************************************************************************)
\* A faulty variant of the conversion: empty phrases are left out.
DummyWeightLineNoEmpty(line, allWords, nbLanguages) ==
    LET phrases == SelectSeq(Split(line, "\t", nbLanguages - 1),
                             LAMBDA phrase : phrase # <<>>)
    IN  Join("\t", [l \in 1..Len(phrases) |->
            LET ws == Words(phrases[l], <<>>)
            IN  Join(" ", [k \in 1..Len(ws) |-> <<allWords[IntHex(ws[k]) + 1]>>])])
        \o <<"\t", "-">>

\* One record of the temporary file, word ids replaced by the words.
DummyWeightLine(line, allWords, nbLanguages) ==
    LET phrases == Split(line, "\t", nbLanguages - 1)
    IN  Join("\t", [l \in 1..Len(phrases) |->
            LET ws == Words(phrases[l], <<>>)
            IN  Join(" ", [k \in 1..Len(ws) |-> <<allWords[IntHex(ws[k]) + 1]>>])])
        \o <<"\t", "-">>

DummyWeight(inputFile, allWords, nbLanguages) ==
    [i \in 1..Len(inputFile) |-> DummyWeightLine(inputFile[i], allWords, nbLanguages)]

(***************************************************************************)
(* CoocDB and Aligner._lexical_weight(inputFile): lines 1258-1364           *)
(***************************************************************************)
\* A faulty variant of the hapax cutoff: words of two lines count as hapaxes.
FirstHapaxLate(wordFreq) ==
    Len(wordFreq) - Cardinality({i \in 1..Len(wordFreq) : wordFreq[i] <= 2})

\* Line 1258: FH = len(self.wordFreq) - self.wordFreq.count(1)
FirstHapax(wordFreq) == Len(wordFreq) - Count(wordFreq, 1)

\* Lines 1263-1264 and 1290-1298: the words that line lineId of the corpus
\* still holds when the words of language sourceLanguage have been taken
\* out: its words below FH of the later languages.
TargetsOfLine(mem, FH, lineId, sourceLanguage) ==
    {w \in Range(mem.corpus[lineId + 1]) :
        w < FH /\ mem.wordLanguages[w + 1] > sourceLanguage}

\* Lines 1290-1296: sourceAp[sw], the lines that hold the source word sw.
SourceAp(mem, sw) ==
    {lineId \in 0..(Len(mem.corpus) - 1) : sw \in Range(mem.corpus[lineId + 1])}

\* Lines 1303-1307: cooc for the source word sw, as the set of its target
\* words and their joint frequencies.
CoocOf(mem, FH, sw) ==
    LET sl == mem.wordLanguages[sw + 1]
        targets == UNION {TargetsOfLine(mem, FH, lineId, sl) :
                             lineId \in SourceAp(mem, sw)}
    IN  [tw \in targets |->
            Cardinality({lineId \in SourceAp(mem, sw) :
                            tw \in TargetsOfLine(mem, FH, lineId, sl)})]

\* The source words of the database: words below FH of a language other
\* than the last that are on some line (lines 1288-1296).
SourceWords(mem, FH, nbLanguages) ==
    {sw \in 0..(FH - 1) :
        /\ mem.wordLanguages[sw + 1] < nbLanguages - 1
        /\ SourceAp(mem, sw) # {}}

\* CoocDB.add(sourceWord, cooc): the arrays of one source word.
CoocArrays(cooc) ==
    LET targets == SortedSeq(DOMAIN cooc)
    IN  [pairs |-> targets,
         freqs |-> [k \in 1..Len(targets) |-> cooc[targets[k]]] \o <<>>]

\* CoocDB after lines 1282-1310: pairs[sw] and freqs[sw] for every source
\* word with a non-empty cooc (CoocDB.add), <<>> for None.
CoocDB(mem, FH, nbLanguages) ==
    LET sources == SourceWords(mem, FH, nbLanguages)
        arrays == [i \in 1..FH |->
                      IF (i - 1) \in sources /\ DOMAIN CoocOf(mem, FH, i - 1) # {}
                      THEN CoocArrays(CoocOf(mem, FH, i - 1))
                      ELSE [pairs |-> <<>>, freqs |-> <<>>]] \o <<>>
    IN  [pairs |-> [i \in 1..FH |-> arrays[i].pairs] \o <<>>,
         freqs |-> [i \in 1..FH |-> arrays[i].freqs] \o <<>>]

\* A faulty variant of the search: bisect_right in place of bisect_left.
BisectRight(a, x) == Cardinality({i \in 1..Len(a) : a[i] <= x})

\* bisect_left(a, x) for a sorted array a
BisectLeft(a, x) == Cardinality({i \in 1..Len(a) : a[i] < x})

\* CoocDB.get(sourceWord, targetWord); -1 stands for the TypeError of a
\* source word without arrays and -2 for the IndexError of an index past the
\* end of the arrays.
CoocGet(db, sourceWord, targetWord) ==
    IF db.pairs[sourceWord + 1] = <<>> THEN -1
    ELSE LET idx == BisectLeft(db.pairs[sourceWord + 1], targetWord)
         IN  IF idx >= Len(db.freqs[sourceWord + 1]) THEN -2
             ELSE db.freqs[sourceWord + 1][idx + 1]

\* Lines 1326-1342: cooc[sw][tw] of the local copy, hapaxes included.
LocalCooc(db, FH, sw, tw) ==
    IF sw < FH /\ tw < FH THEN CoocGet(db, sw, tw) ELSE 1

\* Lines 1319-1323: alignment0, the word ids of a record of the temporary
\* file, per language.
Alignment0(line, nbLanguages) ==
    LET phrases == Split(line, "\t", nbLanguages - 1)
    IN  [l \in 1..Len(phrases) |->
            LET ws == Words(phrases[l], <<>>)
            IN  [k \in 1..Len(ws) |-> IntHex(ws[k])]]

\* A faulty variant of highestCooc: the lowest joint frequency.
HighestCoocLowest(db, FH, alignment, srcLang, sw) ==
    LET coocs == UNION {{IF srcLang < tgtLang
                         THEN LocalCooc(db, FH, sw, alignment[tgtLang][k])
                         ELSE LocalCooc(db, FH, alignment[tgtLang][k], sw) :
                            k \in 1..Len(alignment[tgtLang])} :
                        tgtLang \in (1..Len(alignment)) \ {srcLang}}
    IN  IF coocs = {} THEN 0 ELSE Smallest(coocs)

\* Lines 1349-1358: highestCooc of the source word sw of language srcLang.
HighestCooc(db, FH, alignment, srcLang, sw) ==
    LET coocs == UNION {{IF srcLang < tgtLang
                         THEN LocalCooc(db, FH, sw, alignment[tgtLang][k])
                         ELSE LocalCooc(db, FH, alignment[tgtLang][k], sw) :
                            k \in 1..Len(alignment[tgtLang])} :
                        tgtLang \in (1..Len(alignment)) \ {srcLang}}
    IN  IF coocs = {} THEN 0 ELSE Max(coocs \cup {0})

RECURSIVE Product(_)
Product(s) == IF s = <<>> THEN 1 ELSE Head(s) * Product(Tail(s))

\* Lines 1345-1360: the lexical weight of the phrase of language srcLang as
\* a fraction: the product of highestCooc over that of sourceFreq.
LexWeight(db, FH, wordFreq, alignment, srcLang) ==
    LET phrase == alignment[srcLang]
    IN  <<Product([k \in 1..Len(phrase) |->
                      HighestCooc(db, FH, alignment, srcLang, phrase[k])]),
          Product([k \in 1..Len(phrase) |-> wordFreq[phrase[k] + 1]])>>

\* Lines 1326-1342 for one record: the lookups of the database that fail,
\* as the set of their negative results.
LexicalWeightLineErrors(line, mem, db, FH, nbLanguages) ==
    LET alignment0 == Alignment0(line, nbLanguages)
        alignment == [l \in 1..Len(alignment0) |->
                         SelectSeq(alignment0[l], LAMBDA w : w # 0)]
        pairs == {<<srcLang, tgtLang>> \in (1..Len(alignment)) \X (1..Len(alignment)) :
                     srcLang < tgtLang}
    IN  UNION {{c \in {LocalCooc(db, FH, alignment[pr[1]][i], alignment[pr[2]][k]) :
                          i \in 1..Len(alignment[pr[1]]),
                          k \in 1..Len(alignment[pr[2]])} : c < 0} :
               pr \in pairs}

\* Lines 1319-1364 for one record of the temporary file: the words of the
\* alignment and its lexical weights, written with "%f".
LexicalWeightLine(line, mem, db, FH, nbLanguages) ==
    LET alignment0 == Alignment0(line, nbLanguages)
        alignment == [l \in 1..Len(alignment0) |->
                         SelectSeq(alignment0[l], LAMBDA w : w # 0)]
    IN  Join("\t", [l \in 1..Len(alignment0) |->
            Join(" ", [k \in 1..Len(alignment0[l]) |->
                          <<mem.allWords[alignment0[l][k] + 1]>>])])
        \o <<"\t">>
        \o Join(" ", [l \in 1..Len(alignment) |->
               LET lw == LexWeight(db, FH, mem.wordFreq, alignment, l)
               IN  FormatProba(lw[1], lw[2])])

\* Aligner._lexical_weight(inputFile): the records written to
\* self.weightedAlignmentFile.
LexicalWeight(inputFile, mem, nbLanguages) ==
    LET FH == FirstHapax(mem.wordFreq)
        db == CoocDB(mem, FH, nbLanguages)
    IN  [i \in 1..Len(inputFile) |->
            LexicalWeightLine(inputFile[i], mem, db, FH, nbLanguages)]

\* The exception of CoocDB.get that ends Aligner._lexical_weight(inputFile),
\* "" when there is none.
LexicalWeightError(inputFile, mem, nbLanguages) ==
    LET FH == FirstHapax(mem.wordFreq)
        db == CoocDB(mem, FH, nbLanguages)
        errors == UNION {LexicalWeightLineErrors(inputFile[i], mem, db, FH,
                                                 nbLanguages) :
                            i \in 1..Len(inputFile)}
    IN  IF errors = {} THEN ""
        ELSE IF -1 \in errors THEN "TypeError" ELSE "IndexError"

\* The exception that ends self.weightFunc(inputFile), "" when there is none.
WeightFuncError(doLexWeight, inputFile, mem, nbLanguages) ==
    IF doLexWeight THEN LexicalWeightError(inputFile, mem, nbLanguages) ELSE ""

\* Lines 1276-1281 and 1368-1378: self.counts is written to a temporary file
\* in hexadecimal and read back from it (each length, each frequency; the
\* hash is an integer written with %x and read with int(, 16)).
CountsReadBack(cnt) ==
    LET key(k) == <<IntHex(Hex(k[1])), k[2]>>
    IN  [k \in {key(j) : j \in DOMAIN cnt} |->
            IntHex(Hex(cnt[CHOOSE j \in DOMAIN cnt : key(j) = k]))]

\* self.weightFunc(inputFile) (lines 805-808): the records it writes.
WeightFunc(doLexWeight, inputFile, mem, nbLanguages) ==
    IF doLexWeight THEN LexicalWeight(inputFile, mem, nbLanguages)
    ELSE DummyWeight(inputFile, mem.allWords, nbLanguages)

(***************************************************************************)
(* set_proba(inputFile, inputDict, writer): lines 548-626                   *)
(***************************************************************************)
\* Byte offset of line number i of a file (each line ends with "\n").
OffsetOf(file, i) == SumSeq([j \in 1..(i - 1) |-> StrLen(file[j]) + 1])

\* inputFile.seek(offset); inputFile.readline().rstrip('\n')
LineAt(file, offset) == file[CHOOSE i \in 1..Len(file) : OffsetOf(file, i) = offset]

\* Line 555: the alignment of a line, its lexical weights removed.
AlignmentOf(line) == RSplit(line, "\t", 1)[1]

\* Pass 1 needs inputDict[len(alignment)][hash(alignment)] for every line.
Pass1KeyError(inputFile, inputDict) ==
    \E i \in 1..Len(inputFile) : Key(AlignmentOf(inputFile[i])) \notin DOMAIN inputDict

\* Pass 1 (lines 553-558): offsetsByFreq[freq], the offsets of the lines of
\* frequency freq in the order of the file.
OffsetsByFreq(inputFile, inputDict, freq) ==
    LET idx == SelectSeq([i \in 1..Len(inputFile) |-> i],
                  LAMBDA i : inputDict[Key(AlignmentOf(inputFile[i]))] = freq)
    IN  [k \in 1..Len(idx) |-> OffsetOf(inputFile, idx[k])]

FreqsOf(inputFile, inputDict) ==
    {inputDict[Key(AlignmentOf(inputFile[i]))] : i \in 1..Len(inputFile)}

\* A faulty variant of the sort: ascending frequencies.
RECURSIVE SortedAscSeq(_)
SortedAscSeq(S) == IF S = {} THEN <<>> ELSE <<Min(S)>> \o SortedAscSeq(S \ {Min(S)})

\* sorted(offsetsByFreq.iterkeys(), reverse=True)
RECURSIVE SortedDescSeq(_)
SortedDescSeq(S) == IF S = {} THEN <<>> ELSE <<Max(S)>> \o SortedDescSeq(S \ {Max(S)})

\* Pass 2 (lines 573-579): the frequency-sorted stream, each line followed
\* by its frequency in hexadecimal.
SortedStream(inputFile, inputDict) ==
    LET freqs == SortedDescSeq(FreqsOf(inputFile, inputDict))
    IN  ConcatAll([f \in 1..Len(freqs) |->
            LET offs == OffsetsByFreq(inputFile, inputDict, freqs[f])
            IN  [k \in 1..Len(offs) |->
                    LineAt(inputFile, offs[k]) \o <<"\t">> \o Hex(freqs[f])]])

\* Lines 595-597: the phrases of a line of the stream and its frequency.
StreamPhrases(line, nbSplits) ==
    LET alignment == Split(line, "\t", nbSplits)
    IN  SubSeq(alignment, 1, Len(alignment) - 2)

StreamFreq(line, nbSplits) ==
    LET alignment == Split(line, "\t", nbSplits)
    IN  IntHex(alignment[Len(alignment)])

\* A faulty variant of the marginals: the frequency is stored, not added.
AddPhrasesLast(phraseFreq, phrases, freq) ==
    [l \in 1..Len(phraseFreq) |->
        IF l > Len(phrases) THEN phraseFreq[l]
        ELSE (Hash(phrases[l]) :> freq) @@ phraseFreq[l]]

\* Lines 598-600: counts[phraseHash] += freq for the phrases of one line.
AddPhrases(phraseFreq, phrases, freq) ==
    [l \in 1..Len(phraseFreq) |->
        IF l > Len(phrases) THEN phraseFreq[l]
        ELSE LET h == Hash(phrases[l])
             IN  IF h \in DOMAIN phraseFreq[l]
                 THEN [phraseFreq[l] EXCEPT ![h] = @ + freq]
                 ELSE (h :> freq) @@ phraseFreq[l]]

RECURSIVE CountPhrases(_, _, _)
CountPhrases(phraseFreq, stream, nbSplits) ==
    IF stream = <<>> THEN phraseFreq
    ELSE CountPhrases(AddPhrases(phraseFreq, StreamPhrases(Head(stream), nbSplits),
                                 StreamFreq(Head(stream), nbSplits)),
                      Tail(stream), nbSplits)

\* Lines 589-601: phraseFreq, one dictionary per language; the number of
\* languages is read from the first line of the stream.
PhraseFreq(stream) ==
    LET nbSplits == Count(stream[1], "\t")
        nbLanguages == nbSplits - 1
    IN  CountPhrases([l \in 1..nbLanguages |-> <<>>], stream, nbSplits)

\* Lines 612-619: the record handed to the writer for one line of the stream.
OutputRecord(line, phraseFreq) ==
    LET parts == RSplit(line, "\t", 2)
        alignmentStr == parts[1]
        lexWeights == parts[2]
        freq == IntHex(parts[3])
        alignment == Split(alignmentStr, "\t", Len(phraseFreq))
        nb == IF Len(alignment) < Len(phraseFreq) THEN Len(alignment)
              ELSE Len(phraseFreq)
        probas == Join(" ", [l \in 1..nb |->
                      FormatProba(freq, phraseFreq[l][Hash(alignment[l])])])
    IN  alignmentStr \o <<"\t">> \o lexWeights \o <<"\t">> \o probas
        \o <<"\t">> \o Dec(freq)

(***************************************************************************)
(* merge(inputFilenames, writer): lines 660-684                             *)
(***************************************************************************)
\* A faulty variant of merge: a repeated alignment is not added.
MergeLineFirstOnly(st, line) ==
    LET parts == RSplit(line, "\t", 2)
        key == Key(RSplit(parts[1], "\t", 1)[1])
    IN  IF key \notin DOMAIN st.counts
        THEN [counts |-> StoreNew(st.counts, key, IntDec(parts[3])),
              weightedAlignmentFile |-> Append(st.weightedAlignmentFile, parts[1])]
        ELSE st

\* A faulty variant of merge: the lexical weights of the last line are kept.
MergeLineKeepLast(st, line) ==
    LET parts == RSplit(line, "\t", 2)
        key == Key(RSplit(parts[1], "\t", 1)[1])
    IN  IF key \notin DOMAIN st.counts
        THEN [counts |-> StoreNew(st.counts, key, IntDec(parts[3])),
              weightedAlignmentFile |-> Append(st.weightedAlignmentFile, parts[1])]
        ELSE [counts |-> StoreAdd(st.counts, key, IntDec(parts[3])),
              weightedAlignmentFile |->
                  [i \in 1..Len(st.weightedAlignmentFile) |->
                      IF Key(AlignmentOf(st.weightedAlignmentFile[i])) = key
                      THEN parts[1] ELSE st.weightedAlignmentFile[i]]]

\* Lines 672-681 for one input line; st = [counts, weightedAlignmentFile].
MergeLine(st, line) ==
    LET parts == RSplit(line, "\t", 2)
        alignment_lw == parts[1]
        freq == IntDec(parts[3])
        key == Key(RSplit(alignment_lw, "\t", 1)[1])
    IN  IF key \notin DOMAIN st.counts
        THEN [counts |-> StoreNew(st.counts, key, freq),
              weightedAlignmentFile |-> Append(st.weightedAlignmentFile, alignment_lw)]
        ELSE [st EXCEPT !.counts = StoreAdd(st.counts, key, freq)]

RECURSIVE MergeLines(_, _)
MergeLines(st, ls) ==
    IF ls = <<>> THEN st ELSE MergeLines(MergeLine(st, Head(ls)), Tail(ls))

\* Lines 670-681: all lines of all input files, in order.
MergeFiles(inputs) ==
    MergeLines([counts |-> <<>>, weightedAlignmentFile |-> <<>>], ConcatAll(inputs))

(***************************************************************************)
(* Command line options: main() lines 1528-1540 and Aligner.__init__ lines  *)
(* 798-858.  An option record o has the fields                              *)
(*   min_n, max_n, nb_lang, fields, delim, index_n  (filtering, formatting) *)
(*   nb_al, nb_sent, nb_sec                         (-a, -S, -t)            *)
(* nb_lang is <<>> when -l is not given (None) and <<k>> for -l k; fields   *)
(* is the set of field numbers that -D denotes.                             *)
(***************************************************************************)
maxint == 2147483647

\* main() accepts the options (lines 1532-1536).
OptionsAccepted(o) ==
    LET max_n == IF o.max_n <= 0 THEN maxint ELSE o.max_n
    IN  ~(o.index_n < 1) /\ ~(o.index_n > max_n)

\* The options self.* of the aligner for a corpus of nbLanguages columns.
AlignerOptions(o, nbLanguages) ==
    LET ncf == IF o.delim # "" /\ o.fields = {} THEN 1..nbLanguages
               ELSE o.fields \cap (1..nbLanguages)
    IN  [minSize |-> o.min_n,
         maxSize |-> IF o.max_n <= 0 THEN maxint ELSE o.max_n,
         delimiter |-> o.delim,
         indexN |-> IF o.index_n > 1 THEN o.index_n ELSE 1,
         minLanguages |-> IF o.nb_lang = <<>> THEN nbLanguages ELSE o.nb_lang[1],
         contiguousFields |-> [i \in 1..nbLanguages |-> i \notin ncf]]

(***************************************************************************)
(* Bounds and input pools                                                   *)
(***************************************************************************)
MaxLines == 2
MaxWeight == 1

\* The lines input corpora are made of (two languages).
LinePool ==
    { << <<"a", "b", "c">>, <<"x", "y">> >>,
      << <<"a", "d", "c">>, <<"x", "z">> >>,
      << <<"le", "chat">>, <<"the", "cat">> >> }

SeqsUpTo(S, n) == UNION {[1..k -> S] : k \in 1..n}

\* One input file of 1 .. MaxLines lines.
Corpora == {<<f>> : f \in SeqsUpTo(LinePool, MaxLines)}

FilterOptions ==
    {o \in [min_n : {1, 2}, max_n : {0, 1, 2}, nb_lang : {<<>>, <<1>>},
            fields : {{}, {1}}, delim : {"", "_"}, index_n : {1, 2},
            nb_al : {-1}, nb_sent : {0}, nb_sec : {-1}, weight : {FALSE}] :
        OptionsAccepted(o)}

\* A faulty variant of the sampling: line ids are drawn with replacement.
SamplesRepeating(n) == SeqsUpTo(0..(n - 1), n)

\* random.sample(xrange(n), k) for any k: the sequences of distinct line ids.
Samples(n) ==
    {s \in SeqsUpTo(0..(n - 1), n) : \A i, j \in 1..Len(s) : i # j => s[i] # s[j]}

NbLines(fs) == Len(fs[1])

(***************************************************************************)
(* State                                                                    *)
(***************************************************************************)
VARIABLES
    mode,                   \* "unit": align alone, "align": Aligner, "merge"
    pc,                     \* position in the program
    error,                  \* "" or the name of the exception that ended it
    files, options,         \* input corpus and command line options
    opt,                    \* the options self.* of the aligner
    mem,                    \* the subcorpus loaded by set_corpus
    todo,                   \* partitions: shuffled lines left, nbCorpToDo
    counts,                 \* self.counts
    nbAlignments,           \* self.nbAlignments
    tmpFile,                \* the temporary file of the current run
    weightedAlignmentFile,  \* the record store handed to set_proba
    loc,                    \* local variables of run()
    now,                    \* the clock read by time()
    call,                   \* the align call in progress
    inputs,                 \* merge mode: the input alignment files
    stream, phraseFreq,     \* set_proba: sorted stream left, marginals
    output,                 \* the records handed to the writer
    writer,                 \* the calls that the writer has received
    probaTmpFile,           \* set_proba's temporary file: "none", "open", "closed"
    hist                    \* history of the execution (not program state)

vars == <<mode, pc, error, files, options, opt, mem, todo, counts, nbAlignments,
          tmpFile, weightedAlignmentFile, loc, now, call, inputs, stream,
          phraseFreq, output, writer, probaTmpFile, hist>>

NoLoc == [nb2 |-> 0, nbSubcorporaDone |-> 0, previousNbAl |-> 0,
          lastWriteTime |-> 0, startTime |-> 0, speed |-> maxint,
          subcorpusSize |-> 0, nbCorpora |-> 1, i |-> 0]

NoCall == [prods |-> <<>>, weight |-> 0, lineIds |-> <<>>]

NoHist == [recorded |-> <<>>, weight |-> 0, calls |-> 0,
           committed |-> [counts |-> <<>>, tmpFile |-> <<>>, nbAlignments |-> 0],
           exitCause |-> "",
           prodSum |-> <<>>, roundSum |-> <<>>, roundKeys |-> {},
           windowAl |-> 0, rate |-> -1, corr |-> <<>>, selection |-> <<>>,
           partitions |-> <<>>, probaRuns |-> 0, cut |-> FALSE]

\* The state of a fresh Aligner / of a program that has not read anything.
Fresh ==
    /\ error = ""
    /\ counts = <<>>
    /\ nbAlignments = 0
    /\ tmpFile = <<>>
    /\ weightedAlignmentFile = <<>>
    /\ loc = NoLoc
    /\ now = 0
    /\ call = NoCall
    /\ stream = <<>>
    /\ phraseFreq = <<>>
    /\ output = <<>>
    /\ writer = <<>>
    /\ probaTmpFile = "none"
    /\ hist = NoHist

(***************************************************************************)
(* align() on its own: one call on a loaded corpus.  The alignments that a  *)
(* call produces do not depend on the frequency store.                      *)
(***************************************************************************)
InitAlign ==
    /\ mode = "unit"
    /\ pc = "ready"
    /\ files \in Corpora
    /\ options \in FilterOptions
    /\ opt = AlignerOptions(options, NbLanguagesOf(files))
    /\ mem = SetCorpus(files, [i \in 1..NbLines(files) |-> i - 1],
                       opt.delimiter, opt.indexN)
    /\ todo = <<>>
    /\ inputs = <<>>
    /\ Fresh

\* self.align(lineIds, tmpFile, weight), the whole call.
AlignCall ==
    /\ mode = "unit" /\ pc = "ready"
    /\ \E lineIds \in Samples(Len(mem.corpus)), weight \in 1..MaxWeight :
          LET prods == Productions(mem, opt, lineIds)
              st == RecordAll([counts |-> counts, tmpFile |-> tmpFile,
                               nbAlignments |-> nbAlignments], prods, weight)
          IN  /\ counts' = st.counts
              /\ tmpFile' = st.tmpFile
              /\ nbAlignments' = st.nbAlignments
              /\ hist' = [hist EXCEPT !.recorded = prods, !.weight = weight,
                                      !.calls = @ + 1]
              /\ call' = [prods |-> <<>>, weight |-> weight, lineIds |-> lineIds]
    /\ pc' = "returned"
    /\ UNCHANGED <<mode, error, files, options, opt, mem, todo,
                   weightedAlignmentFile, loc, now, inputs, stream,
                   phraseFreq, output,
                   writer, probaTmpFile>>

NextAlign == AlignCall

SpecAlign == InitAlign /\ [][NextAlign]_vars

(***************************************************************************)
(* set_corpus, align and the weight function on their own: a subset of the  *)
(* lines of the input is loaded, one align call is made on some of the      *)
(* loaded lines, and the weight function is applied to what it recorded.    *)
(* hist.selection holds the argument of set_corpus.                         *)
(***************************************************************************)
MaxLexLines == 3

\* Lines of two and of three languages.
LexLinePool2 ==
    << << <<"a", "b", "c">>, <<"x", "y">> >>,
       << <<"a", "d", "c">>, <<"x", "z">> >>,
       << <<"a", "b">>, <<"w">> >> >>

LexLinePool3 ==
    << << <<"a">>, <<"x">>, <<"p">> >>,
       << <<"a">>, <<"y">>, <<"p">> >>,
       << <<"b">>, <<"x">>, <<"p">> >> >>

\* One input file of 1 .. MaxLexLines lines of one of the pools, in the order
\* of the pool.
LexCorpora ==
    {<<[i \in 1..Len(ix) |-> pool[ix[i]]]>> :
        ix \in {s \in SeqsUpTo(1..3, MaxLexLines) :
                   \A i \in 1..(Len(s) - 1) : s[i] <= s[i + 1]},
        pool \in {LexLinePool2, LexLinePool3}}

\* With and without -w, with some filters: -l 1 or all languages, no
\* delimiter or -d _, -i 1 or -i 2.
LexOptions ==
    [min_n : {1}, max_n : {0}, nb_lang : {<<>>, <<1>>}, fields : {{}},
     delim : {"", "_"}, index_n : {1, 2}, nb_al : {-1}, nb_sent : {0},
     nb_sec : {-1}, weight : {FALSE, TRUE}]

\* The arguments of set_corpus: sorted line numbers, not all lines need be
\* selected.
Selections(n) == {SortedSeq(S) : S \in (SUBSET (0..(n - 1))) \ {{}}}

InitLex ==
    /\ mode = "unit"
    /\ pc = "start"
    /\ files \in LexCorpora
    /\ options \in LexOptions
    /\ opt = AlignerOptions(options, NbLanguagesOf(files))
    /\ mem = <<>>
    /\ todo = <<>>
    /\ inputs = <<>>
    /\ Fresh

\* self.set_corpus(selection), the whole call.
LoadCorpus ==
    /\ mode = "unit" /\ pc = "start"
    /\ \E selection \in Selections(NbLines(files)) :
          /\ mem' = SetCorpus(files, selection, opt.delimiter, opt.indexN)
          /\ hist' = [hist EXCEPT !.selection = selection]
    /\ pc' = "ready"
    /\ UNCHANGED <<mode, error, files, options, opt, todo, counts, nbAlignments,
                   tmpFile, weightedAlignmentFile, loc, now, call, inputs, stream,
                   phraseFreq, output,
                   writer, probaTmpFile>>

\* self.weightFunc(tmpFile), the whole call.
WeightCall ==
    /\ mode = "unit" /\ pc = "returned"
    /\ LET nbLanguages == Len(opt.contiguousFields)
           exception == WeightFuncError(options.weight, tmpFile, mem, nbLanguages)
       IN  IF exception # ""
           THEN /\ pc' = "error" /\ error' = exception
                /\ counts' = <<>>
                /\ UNCHANGED weightedAlignmentFile
           ELSE /\ weightedAlignmentFile' = weightedAlignmentFile
                       \o WeightFunc(options.weight, tmpFile, mem, nbLanguages)
                /\ counts' = IF options.weight THEN CountsReadBack(counts)
                              ELSE counts
                /\ pc' = "weighted"
                /\ error' = error
    /\ UNCHANGED <<mode, files, options, opt, mem, todo, nbAlignments, tmpFile,
                   loc, now, call, inputs, stream, phraseFreq, output,
                   writer, probaTmpFile, hist>>

NextLex ==
    \/ LoadCorpus
    \/ AlignCall
    \/ WeightCall

SpecLex == InitLex /\ [][NextLex]_vars

(***************************************************************************)
(* Align mode: Aligner.__init__ (partitions), run() and set_proba.          *)
(*                                                                         *)
(* pc: "start" -> "init" -> "partition" -> "loop" -> "count" -> "align"    *)
(* ("print", "incr") -> "loop" ... -> "corr1" -> "weight" -> ("partition"   *)
(* | "proba") -> "write" -> "done"; "cut" when the writer failed; "error"   *)
(* when an exception ends the program.                                      *)
(* A KeyboardInterrupt is delivered between two bytecodes, so it can arrive *)
(* at every position of the main loop, align included.  The clock is read   *)
(* at the start of run() and by the loop test only, so it is enough to let  *)
(* time pass while control is at the loop test.                             *)
(***************************************************************************)
MaxRunLines == 3
MaxRounds == 2
MaxTime == 1
MAX_SUBCORPUS_SIZE == 100000

RunLinePool ==
    << << <<"le", "chat">>, <<"the", "cat">> >>,
       << <<"le", "chien">>, <<"the", "dog">> >> >>

\* Input files that Aligner.__init__ refuses: a file whose second line has
\* one column where the first has two, and two files of two lines and one
\* line.
BadCorpora ==
    { << << RunLinePool[1], << <<"le", "chien">> >> >> >>,
      << << << <<"le", "chat">> >>, << <<"le", "chien">> >> >>,
         << << <<"the", "cat">> >> >> >> }

\* Two input files of one line, with two columns and one column.
TwoFileCorpora ==
    { << << RunLinePool[1] >>, << << <<"el", "gato">> >> >> >> }

\* One input file of 1 .. MaxRunLines lines of the pool, in the order of the
\* pool, and the corpora above.
RunCorpora ==
    {<<[i \in 1..Len(ix) |-> RunLinePool[ix[i]]]>> :
        ix \in {s \in SeqsUpTo(1..Len(RunLinePool), MaxRunLines) :
                   \A i \in 1..(Len(s) - 1) : s[i] <= s[i + 1]}}
    \cup BadCorpora \cup TwoFileCorpora

\* The default filters (-n 1 -N 7, all languages, contiguous, no delimiter,
\* -i 1) with some values of -a, -S and -t, and with -w.
RunOptions ==
    {o \in [min_n : {1}, max_n : {7}, nb_lang : {<<>>}, fields : {{}},
            delim : {""}, index_n : {1}, nb_al : {-1, 1}, nb_sent : {0, 2},
            nb_sec : {-1, 0, 1}, weight : {FALSE, TRUE}] :
        /\ o.weight => (o.nb_al = -1 /\ o.nb_sent = 0 /\ o.nb_sec = -1)
        /\ o.nb_al = 1 => o.nb_sec = -1
        /\ o.nb_sent = 2 => o.nb_sec # 0}

\* int(math.ceil(1. * a / b)) for a >= 0, b > 0
CeilDiv(a, b) == (a + b - 1) \div b

\* The permutations of 0 .. n-1: the outcomes of random.shuffle(range(n)).
Shuffles(n) == {s \in [1..n -> 0..(n - 1)] : \A i, j \in 1..n : i # j => s[i] # s[j]}

\* Lines 1075-1079: weight1 and weightN are nb2 times a ratio of logarithms
\* that depends on nbLines only.  The ratios are given as fractions that
\* yield the integer part and the sign of the fractional part of the
\* floating-point values for nb2 <= 8.
Weight1Ratio(nbLines) ==
    CASE nbLines = 3 -> <<16062806, 10000000>>
      [] nbLines = 4 -> <<11446121, 10000000>>
      [] nbLines = 5 -> <<8895604, 10000000>>
      [] OTHER -> <<7275830, 10000000>>

WeightNRatio(nbLines) ==
    CASE nbLines = 3 -> <<1, 3>>
      [] nbLines = 4 -> <<1586969, 10000000>>
      [] nbLines = 5 -> <<905178, 10000000>>
      [] OTHER -> <<576375, 10000000>>

\* A faulty variant of the stochastic rounding: the trial adds 2.
WeightChoicesTwice(nb2, ratio) ==
    LET intPart == (nb2 * ratio[1]) \div ratio[2]
    IN  IF (nb2 * ratio[1]) % ratio[2] = 0 THEN {intPart}
        ELSE {intPart, intPart + 2}

\* Lines 1081-1086 and 1090-1093: the values w can take; math.modf splits
\* the weight, and random.random() < frac adds 1 (never when frac is 0).
WeightChoices(nb2, ratio) ==
    LET intPart == (nb2 * ratio[1]) \div ratio[2]
    IN  IF (nb2 * ratio[1]) % ratio[2] = 0 THEN {intPart}
        ELSE {intPart, intPart + 1}

\* History: one more alignment alString produced with some weight.  Of the
\* other fields of hist, windowAl is the number of alignments recorded when
\* the current measurement window of run() began (at the start of run() or
\* at the previous measurement) and rate the number of alignments recorded
\* in the last window per second of that window (-1: nothing measured);
\* corr lists the align calls of the boundary corrections of the current
\* run(), with their line ids and weight.
AddTo(f, k, w) == IF k \in DOMAIN f THEN [f EXCEPT ![k] = @ + w] ELSE (k :> w) @@ f

Produced(h, alString, weight) ==
    [h EXCEPT !.prodSum = AddTo(@, alString, weight),
              !.roundSum = IF alString \in h.roundKeys THEN @
                           ELSE AddTo(@, alString, weight),
              !.roundKeys = @ \cup {alString}]

RECURSIVE ProducedAll(_, _, _)
ProducedAll(h, prods, weight) ==
    IF prods = <<>> THEN h
    ELSE ProducedAll(Produced(h, Head(prods).alString, weight), Tail(prods), weight)

Snapshot == [counts |-> counts, tmpFile |-> tmpFile, nbAlignments |-> nbAlignments]

\* A faulty variant of the input checks: the files must also have the same
\* number of columns.
FilesAcceptedSameColumns(fs) ==
    /\ \A f \in 1..Len(fs) :
          \A i \in 1..Len(fs[f]) : Len(fs[f][i]) = FileLanguages(fs[f])
    /\ \A f \in 1..Len(fs) : Len(fs[f]) = Len(fs[1])
    /\ \A f \in 1..Len(fs) : FileLanguages(fs[f]) = FileLanguages(fs[1])

\* A faulty variant of the input checks: the columns are not counted.
FilesAcceptedLineCountsOnly(fs) ==
    \A f \in 1..Len(fs) : Len(fs[f]) = Len(fs[1])

\* Lines 824-847: the two assertions of Aligner.__init__ hold for all files
\* (fl == fileLanguages on every line, nbLines == lineId + 1 for every file).
FilesAccepted(fs) ==
    /\ \A f \in 1..Len(fs) :
          \A i \in 1..Len(fs[f]) : Len(fs[f][i]) = FileLanguages(fs[f])
    /\ \A f \in 1..Len(fs) : Len(fs[f]) = Len(fs[1])

\* The program starts in align mode.  opt holds the options self.* that
\* Aligner.__init__ derives from the command line and from the number of
\* columns of the first lines.
InitRun ==
    /\ mode = "align"
    /\ pc = "start"
    /\ files \in RunCorpora
    /\ options \in RunOptions
    /\ opt = AlignerOptions(options, NbLanguagesOf(files))
    /\ mem = <<>>
    /\ todo = <<>>
    /\ inputs = <<>>
    /\ Fresh

\* Aligner.__init__ lines 812-858: the input files are opened and read once;
\* a failed assertion ends the program.
ReadFiles ==
    /\ mode = "align" /\ pc = "start"
    /\ IF FilesAccepted(files)
       THEN pc' = "init" /\ error' = error
       ELSE pc' = "error" /\ error' = "AssertionError"
    /\ UNCHANGED <<mode, files, options, opt, mem, todo, counts, nbAlignments,
                   tmpFile, weightedAlignmentFile, loc, now, call, inputs, stream,
                   phraseFreq, output,
                   writer, probaTmpFile, hist>>

\* A faulty variant of the number of partitions: the limit is ignored.
NbCorporaOne(nbLines, maxNbLines) == 1

\* Lines 863-866: nbCorpora
NbCorpora(nbLines, maxNbLines) ==
    IF maxNbLines < 1 THEN 1 ELSE CeilDiv(nbLines, maxNbLines)

\* Aligner.__init__ lines 860-873: the number of partitions and the shuffle.
Partition ==
    /\ mode = "align" /\ pc = "init"
    /\ \E lines \in Shuffles(NbLines(files)) :
          todo' = [lines |-> lines,
                   nbCorpToDo |-> NbCorpora(NbLines(files), options.nb_sent)]
    /\ loc' = [loc EXCEPT !.nbCorpora = todo'.nbCorpToDo]
    /\ pc' = "partition"
    /\ UNCHANGED <<mode, error, files, options, opt, mem, counts, nbAlignments,
                   tmpFile, weightedAlignmentFile, now, call, inputs, stream,
                   phraseFreq, output,
                   writer, probaTmpFile, hist>>

\* Lines 877-880: the lines popped from the end of the shuffled lines for the
\* next partition, sorted.
Selection(td) ==
    LET size == CeilDiv(Len(td.lines), td.nbCorpToDo)
    IN  SortedSeq({td.lines[i] : i \in (Len(td.lines) - size + 1)..Len(td.lines)})

\* Lines 877-882 and 1001-1026: the next partition is selected and loaded,
\* and run() initialises its local variables.
SetCorpusRun ==
    /\ mode = "align" /\ pc = "partition"
    /\ LET selection == Selection(todo)
           rest == Len(todo.lines) - Len(selection)
       IN  /\ todo' = [lines |-> SubSeq(todo.lines, 1, rest),
                       nbCorpToDo |-> todo.nbCorpToDo - 1]
           /\ mem' = SetCorpus(files, selection, opt.delimiter, opt.indexN)
    /\ loc' = [NoLoc EXCEPT !.nbCorpora = loc.nbCorpora,
                            !.startTime = now, !.lastWriteTime = now]
    /\ tmpFile' = <<>>
    /\ hist' = [hist EXCEPT !.committed = [Snapshot EXCEPT !.tmpFile = <<>>],
                            !.exitCause = "",
                            !.windowAl = nbAlignments, !.rate = -1,
                            !.partitions = Append(@, Selection(todo))]
    /\ pc' = "loop"
    /\ UNCHANGED <<mode, error, files, options, opt, counts, nbAlignments,
                   weightedAlignmentFile, now, call, inputs, stream, phraseFreq,
                   output,
                   writer, probaTmpFile>>

\* Aligner.main_distribution(k) = 1. / (k * log(1 - k / (nbLines + 1))), in
\* thousandths and without its sign (all values are negative, and
\* Distribution divides them by their sum).  The table holds the values
\* that run() asks for with corpora of up to 5 lines.
MainDistribution(k, nbLines) ==
    CASE nbLines = 1 /\ k = 1 -> 1443
      [] nbLines = 2 /\ k = 1 -> 2466
      [] nbLines = 2 /\ k = 2 -> 455
      [] nbLines = 3 /\ k = 2 -> 721
      [] nbLines = 4 /\ k = 2 -> 979
      [] nbLines = 4 /\ k = 3 -> 364
      [] nbLines = 5 /\ k = 2 -> 1233
      [] nbLines = 5 /\ k = 3 -> 481
      [] nbLines = 5 /\ k = 4 -> 228

\* Distribution.__init__(function, start, end): the cumulated shares of the
\* values function(start) .. function(end), in thousandths.
Distribution(function, start, end) ==
    LET values == [i \in 1..(end + 1 - start) |-> function[start + i - 1]]
        total == SumSeq(values)
    IN  [values |-> [i \in 1..Len(values) |->
                        (1000 * SumSeq(SubSeq(values, 1, i))) \div total],
         start |-> start,
         nbVal |-> end + 1 - start]

\* A faulty variant of Distribution.next: the index found is passed by one.
DistributionNextPast(d, r) ==
    LET hits == {i \in 0..(d.nbVal - 1) : r < d.values[i + 1]}
    IN  IF hits # {} THEN d.start + Min(hits) + 1 ELSE d.start + d.nbVal

\* Distribution.next() when random.random() returns r (in thousandths): the
\* first index whose cumulated share exceeds r, and the last index of the
\* loop when there is none.
DistributionNext(d, r) ==
    LET hits == {i \in 0..(d.nbVal - 1) : r < d.values[i + 1]}
    IN  IF hits # {} THEN d.start + Min(hits) ELSE d.start + (d.nbVal - 1)

\* Values of random.random(), in thousandths: the ends of [0, 1) and values
\* on both sides of the cumulated shares of the table.
RandomValues == {0, 500, 800, 999}

\* Lines 1002-1013: the distribution of the subcorpus sizes.
SizeDistribution(nbLines) ==
    IF nbLines > 2
    THEN Distribution([k \in 2..(nbLines - 1) |-> MainDistribution(k, nbLines)],
                      2, nbLines - 1)
    ELSE Distribution([k \in 1..nbLines |-> MainDistribution(k, nbLines)],
                      1, nbLines)

\* Lines 1050-1052: the sizes that nextRandomSize() returns and the loop
\* `while subcorpusSize > MAX_SUBCORPUS_SIZE` lets through.
RandomSizes(nbLines) ==
    {k \in {DistributionNext(SizeDistribution(nbLines), r) : r \in RandomValues} :
        ~(k > MAX_SUBCORPUS_SIZE)}

\* Lines 1065-1071: the loop is over; the message divides by
\* nbSubcorporaDone.  Control goes to the boundary corrections, which are
\* skipped when nbLines <= 2 (line 1073).
LoopOver(cause) ==
    /\ hist' = [hist EXCEPT !.exitCause = cause,
                            !.cut = @ \/ (cause = "interrupt"
                                            /\ pc \in {"print", "incr"})]
    /\ IF loc.nbSubcorporaDone = 0
       THEN pc' = "error" /\ error' = "ZeroDivisionError"
       ELSE /\ pc' = IF Len(mem.corpus) > 2 THEN "corr1" ELSE "weight"
            /\ error' = error

\* Lines 1029-1054: the loop test, the timeout test, the progress message
\* and the choice of the size of the next subcorpus.
LoopTest ==
    /\ mode = "align" /\ pc = "loop"
    /\ IF ~(loc.speed > options.nb_al)
       THEN LoopOver("speed") /\ UNCHANGED loc
       ELSE IF ~(options.nb_sec < 0)
               /\ (now - loc.startTime) * loc.nbCorpora >= options.nb_sec
       THEN LoopOver("timeout") /\ UNCHANGED loc
       ELSE /\ loc.nbSubcorporaDone < MaxRounds
            /\ \E size \in RandomSizes(Len(mem.corpus)) :
                  LET elapsedTime == now - loc.lastWriteTime
                      shown == loc.nbSubcorporaDone >= 1 /\ elapsedTime >= 1
                  IN  loc' = [loc EXCEPT
                          !.speed = IF shown
                                    THEN CeilDiv(nbAlignments - loc.previousNbAl,
                                                 elapsedTime)
                                    ELSE @,
                          !.previousNbAl = IF shown THEN nbAlignments ELSE @,
                          !.lastWriteTime = IF shown THEN now ELSE @,
                          !.subcorpusSize = size,
                          !.nb2 = IF size = 2 THEN @ + 1 ELSE @]
            /\ LET elapsedTime == now - loc.lastWriteTime
               IN  hist' = IF loc.nbSubcorporaDone >= 1 /\ elapsedTime >= 1
                           THEN [hist EXCEPT
                                    !.rate = CeilDiv(nbAlignments - hist.windowAl,
                                                     elapsedTime),
                                    !.windowAl = nbAlignments]
                           ELSE hist
            /\ pc' = "count"
            /\ error' = error
    /\ UNCHANGED <<mode, files, options, opt, mem, todo, counts, nbAlignments,
                   tmpFile, weightedAlignmentFile, now, call, inputs, stream,
                   phraseFreq, output,
                   writer, probaTmpFile>>

\* Lines 1056-1058: the round is counted, the subcorpus is sampled and
\* align is entered.
RoundCount ==
    /\ mode = "align" /\ pc = "count"
    /\ loc' = [loc EXCEPT !.nbSubcorporaDone = @ + 1]
    /\ \E lineIds \in {s \in Samples(Len(mem.corpus)) : Len(s) = loc.subcorpusSize} :
          call' = [prods |-> Productions(mem, opt, lineIds), weight |-> 1,
                   lineIds |-> lineIds]
    /\ hist' = [hist EXCEPT !.roundKeys = {}]
    /\ pc' = "align"
    /\ UNCHANGED <<mode, error, files, options, opt, mem, todo, counts,
                   nbAlignments, tmpFile, weightedAlignmentFile, now, inputs,
                   stream, phraseFreq, output,
                   writer, probaTmpFile>>

\* Lines 1225-1229 and 1233: the frequency of the next alignment is stored.
AlignStore ==
    /\ mode = "align" /\ pc = "align" /\ call.prods # <<>>
    /\ LET p == Head(call.prods)
           key == Key(p.alString)
       IN  /\ IF key \notin DOMAIN counts
              THEN /\ counts' = StoreNew(counts, key, call.weight)
                   /\ pc' = "print"
                   /\ call' = call
              ELSE /\ counts' = StoreAdd(counts, key, call.weight)
                   /\ pc' = "align"
                   /\ call' = [call EXCEPT !.prods = Tail(@)]
           /\ hist' = Produced(hist, p.alString, call.weight)
    /\ UNCHANGED <<mode, error, files, options, opt, mem, todo, nbAlignments,
                   tmpFile, weightedAlignmentFile, loc, now, inputs, stream,
                   phraseFreq, output,
                   writer, probaTmpFile>>

\* Line 1230: print >> outputFile, stringToPrint
AlignPrint ==
    /\ mode = "align" /\ pc = "print"
    /\ tmpFile' = Append(tmpFile, Head(call.prods).stringToPrint)
    /\ pc' = "incr"
    /\ UNCHANGED <<mode, error, files, options, opt, mem, todo, counts,
                   nbAlignments, weightedAlignmentFile, loc, now, call, inputs,
                   stream, phraseFreq, output,
                   writer, probaTmpFile, hist>>

\* Line 1231: self.nbAlignments += 1
AlignIncr ==
    /\ mode = "align" /\ pc = "incr"
    /\ nbAlignments' = nbAlignments + 1
    /\ call' = [call EXCEPT !.prods = Tail(@)]
    /\ pc' = "align"
    /\ UNCHANGED <<mode, error, files, options, opt, mem, todo, counts, tmpFile,
                   weightedAlignmentFile, loc, now, inputs, stream, phraseFreq,
                   output,
                   writer, probaTmpFile, hist>>

\* align returns to the main loop.
AlignReturn ==
    /\ mode = "align" /\ pc = "align" /\ call.prods = <<>>
    /\ call' = NoCall
    /\ hist' = [hist EXCEPT !.committed = Snapshot, !.calls = @ + 1]
    /\ pc' = "loop"
    /\ UNCHANGED <<mode, error, files, options, opt, mem, todo, counts,
                   nbAlignments, tmpFile, weightedAlignmentFile, loc, now, inputs,
                   stream, phraseFreq, output,
                   writer, probaTmpFile>>

\* Lines 1060-1064: a KeyboardInterrupt raised in the main loop is caught.
Interrupt ==
    /\ mode = "align" /\ pc \in {"loop", "count", "align", "print", "incr"}
    /\ LoopOver("interrupt")
    /\ call' = NoCall
    /\ UNCHANGED <<mode, files, options, opt, mem, todo, counts, nbAlignments,
                   tmpFile, weightedAlignmentFile, loc, now, inputs, stream,
                   phraseFreq, output,
                   writer, probaTmpFile>>

\* Time passes.
Tick ==
    /\ mode = "align" /\ pc = "loop"
    /\ now < MaxTime
    /\ now' = now + 1
    /\ UNCHANGED <<mode, pc, error, files, options, opt, mem, todo, counts,
                   nbAlignments, tmpFile, weightedAlignmentFile, loc, call,
                   inputs, stream, phraseFreq, output,
                   writer, probaTmpFile, hist>>

\* A whole align call of the boundary corrections.
CorrectionAlign(lineIds, w) ==
    LET prods == Productions(mem, opt, lineIds)
        st == RecordAll(Snapshot, prods, w)
    IN  /\ counts' = st.counts
        /\ tmpFile' = st.tmpFile
        /\ nbAlignments' = st.nbAlignments
        /\ hist' = ProducedAll([hist EXCEPT !.roundKeys = {},
                                     !.corr = Append(@, [lineIds |-> lineIds,
                                                         weight |-> w])],
                               prods, w)

\* Lines 1080-1088: subcorpora of size 1, one line per step.
Correction1 ==
    /\ mode = "align" /\ pc = "corr1"
    /\ loc.nb2 # 0
    /\ loc.i < Len(mem.corpus)
    /\ \E w \in WeightChoices(loc.nb2, Weight1Ratio(Len(mem.corpus))) :
          IF w # 0 THEN CorrectionAlign(<<loc.i>>, w)
          ELSE UNCHANGED <<counts, tmpFile, nbAlignments, hist>>
    /\ loc' = [loc EXCEPT !.i = @ + 1]
    /\ UNCHANGED <<mode, pc, error, files, options, opt, mem, todo,
                   weightedAlignmentFile, now, call, inputs, stream, phraseFreq,
                   output,
                   writer, probaTmpFile>>

\* Lines 1089-1095: the subcorpus of size nbLines.
CorrectionN ==
    /\ mode = "align" /\ pc = "corr1"
    /\ loc.nb2 = 0 \/ loc.i = Len(mem.corpus)
    /\ IF loc.nb2 # 0
       THEN \E w \in WeightChoices(loc.nb2, WeightNRatio(Len(mem.corpus))) :
               IF w # 0
               THEN CorrectionAlign([i \in 1..Len(mem.corpus) |-> i - 1], w)
               ELSE UNCHANGED <<counts, tmpFile, nbAlignments, hist>>
       ELSE UNCHANGED <<counts, tmpFile, nbAlignments, hist>>
    /\ pc' = "weight"
    /\ UNCHANGED <<mode, error, files, options, opt, mem, todo,
                   weightedAlignmentFile, loc, now, call, inputs, stream,
                   phraseFreq, output,
                   writer, probaTmpFile>>

\* Lines 1097-1098 (self.weightFunc), the return of run() (its local
\* variables are gone) and the loop of Aligner.__init__ (874).
Weight ==
    /\ mode = "align" /\ pc = "weight"
    /\ LET nbLanguages == Len(opt.contiguousFields)
           exception == WeightFuncError(options.weight, tmpFile, mem, nbLanguages)
       IN  IF exception # ""
           THEN \* self.counts was cleared (line 1281) and is not read back
                /\ pc' = "error" /\ error' = exception
                /\ counts' = <<>>
                /\ UNCHANGED <<weightedAlignmentFile, tmpFile, loc, hist>>
           ELSE /\ weightedAlignmentFile' = weightedAlignmentFile
                       \o WeightFunc(options.weight, tmpFile, mem, nbLanguages)
                /\ counts' = IF options.weight THEN CountsReadBack(counts)
                              ELSE counts
                /\ tmpFile' = <<>>
                /\ loc' = [NoLoc EXCEPT !.nbCorpora = loc.nbCorpora]
                /\ hist' = [hist EXCEPT !.committed = NoHist.committed,
                                        !.roundKeys = {}, !.exitCause = "",
                                        !.windowAl = 0, !.rate = -1,
                                        !.corr = <<>>]
                /\ pc' = IF todo.nbCorpToDo > 0 THEN "partition" ELSE "proba"
                /\ error' = error
    /\ UNCHANGED <<mode, files, options, opt, mem, todo, nbAlignments, now, call,
                   inputs, stream, phraseFreq, output,
                   writer, probaTmpFile>>

(***************************************************************************)
(* set_proba, called by Aligner.__init__ (line 883) and by merge (684)      *)
(***************************************************************************)
\* Lines 548-602: passes 1 and 2; nothing is output for an empty store.
SetProbaSort ==
    /\ pc = "proba"
    /\ IF Pass1KeyError(weightedAlignmentFile, counts)
       THEN /\ pc' = "error" /\ error' = "KeyError"
            /\ UNCHANGED <<counts, stream, phraseFreq, probaTmpFile>>
       ELSE /\ counts' = <<>>
            /\ error' = error
            /\ IF weightedAlignmentFile = <<>>
               THEN pc' = "done" /\ UNCHANGED <<stream, phraseFreq, probaTmpFile>>
               ELSE /\ stream' = SortedStream(weightedAlignmentFile, counts)
                    /\ phraseFreq' = PhraseFreq(stream')
                    /\ probaTmpFile' = "open"
                    /\ pc' = "write"
    /\ hist' = [hist EXCEPT !.probaRuns = @ + 1]
    /\ UNCHANGED <<mode, files, options, opt, mem, todo, nbAlignments, tmpFile,
                   weightedAlignmentFile, loc, now, call, inputs, output, writer>>

\* Lines 611-620: one record is handed to the writer, which writes it.
WriteRecord ==
    /\ pc = "write" /\ stream # <<>>
    /\ output' = Append(output, OutputRecord(Head(stream), phraseFreq))
    /\ writer' = Append(writer, "write")
    /\ stream' = Tail(stream)
    /\ UNCHANGED <<mode, pc, error, files, options, opt, mem, todo, counts,
                   nbAlignments, tmpFile, weightedAlignmentFile, loc, now, call,
                   inputs, phraseFreq, probaTmpFile, hist>>

\* A faulty variant of the handler: the temporary file is left open.
AfterIOErrorLeftOpen == [pc |-> "cut", error |-> "", probaTmpFile |-> "open"]

\* Lines 622-626: "except IOError: pass", then "finally: tmpFile.close()";
\* set_proba returns to its caller, which has nothing left to do: the
\* program ends at "cut", its output cut short.
AfterIOError == [pc |-> "cut", error |-> "", probaTmpFile |-> "closed"]

\* Lines 611-626: writer.write raises IOError (the consumer of the output has
\* closed it); the record is not written.
WriteFails ==
    /\ pc = "write" /\ stream # <<>>
    /\ writer' = Append(writer, "write raises IOError")
    /\ pc' = AfterIOError.pc
    /\ error' = AfterIOError.error
    /\ probaTmpFile' = AfterIOError.probaTmpFile
    /\ UNCHANGED <<mode, files, options, opt, mem, todo, counts,
                   nbAlignments, tmpFile, weightedAlignmentFile, loc, now, call,
                   inputs, stream, phraseFreq, output, hist>>

\* A faulty variant of the end of pass 3: terminate is called twice.
WriterCallsAtEndTwice == <<"terminate", "terminate">>

\* Line 621: the calls made when all records have been written.
WriterCallsAtEnd == <<"terminate">>

\* Lines 621-626: writer.terminate(), then "finally: tmpFile.close()".
Terminate ==
    /\ pc = "write" /\ stream = <<>>
    /\ writer' = writer \o WriterCallsAtEnd
    /\ probaTmpFile' = "closed"
    /\ pc' = "done"
    /\ UNCHANGED <<mode, error, files, options, opt, mem, todo, counts,
                   nbAlignments, tmpFile, weightedAlignmentFile, loc, now, call,
                   inputs, stream, phraseFreq, output, hist>>

NextRun ==
    \/ ReadFiles
    \/ Partition
    \/ SetCorpusRun
    \/ LoopTest
    \/ RoundCount
    \/ AlignStore
    \/ AlignPrint
    \/ AlignIncr
    \/ AlignReturn
    \/ Interrupt
    \/ Tick
    \/ Correction1
    \/ CorrectionN
    \/ Weight
    \/ SetProbaSort
    \/ WriteRecord
    \/ WriteFails
    \/ Terminate

SpecRun == InitRun /\ [][NextRun]_vars

(***************************************************************************)
(* Merge mode: merge(inputFilenames, writer)                                *)
(***************************************************************************)
MaxMergeLines == 2

\* A line of an alignment file.
AlignmentLine(alignment, lexWeights, probas, freq) ==
    alignment \o <<"\t">> \o lexWeights \o <<"\t">> \o probas \o <<"\t">> \o Dec(freq)

MergeAlignments ==
    { <<"a", "\t", "x">>, <<"a", "\t", "y">>, <<"a", "\t", "z">>,
      <<"b", " ", "c", "\t", "x">> }

\* Lexical weights, with the probabilities and the frequency of the line.
MergeFields ==
    { [lw |-> <<"-">>,
       probas |-> <<"1", ".", "0", "0", "0", "0", "0", "0", " ",
                    "1", ".", "0", "0", "0", "0", "0", "0">>,
       freq |-> 1],
      [lw |-> <<"0", ".", "5", " ", "0", ".", "2">>,
       probas |-> <<"0", ".", "5", "0", "0", "0", "0", "0", " ",
                    "0", ".", "2", "5", "0", "0", "0", "0">>,
       freq |-> 12] }

MergeLinePool ==
    {AlignmentLine(a, w.lw, w.probas, w.freq) : a \in MergeAlignments, w \in MergeFields}

MergeFilePool == SeqsUpTo(MergeLinePool, MaxMergeLines)

\* The input lists: a file, a file given twice, a file and a one-line file.
MergeInputs ==
    {<<f>> : f \in MergeFilePool} \cup {<<f, f>> : f \in MergeFilePool}
    \cup {<<f, g>> : f \in MergeFilePool, g \in SeqsUpTo(MergeLinePool, 1)}

InitMerge ==
    /\ mode = "merge"
    /\ pc = "merge"
    /\ inputs \in MergeInputs
    /\ files = <<>>
    /\ options = <<>>
    /\ opt = <<>>
    /\ mem = <<>>
    /\ todo = <<>>
    /\ Fresh

\* Lines 660-683: the frequencies of all input lines are summed up.
MergeRead ==
    /\ mode = "merge" /\ pc = "merge"
    /\ LET st == MergeFiles(inputs)
       IN  /\ counts' = st.counts
           /\ weightedAlignmentFile' = st.weightedAlignmentFile
    /\ pc' = "proba"
    /\ UNCHANGED <<mode, error, files, options, opt, mem, todo, nbAlignments,
                   tmpFile, loc, now, call, inputs, stream, phraseFreq, output,
                   writer, probaTmpFile,
                   hist>>

NextMerge ==
    \/ MergeRead
    \/ SetProbaSort
    \/ WriteRecord
    \/ WriteFails
    \/ Terminate

SpecMerge == InitMerge /\ [][NextMerge]_vars

\* Both modes of the program.
Init == InitRun \/ InitMerge

Next == NextRun \/ MergeRead

Spec == Init /\ [][Next]_vars

\* merge as a function: the records handed to the writer.
MergeOutput(inputFiles) ==
    LET st == MergeFiles(inputFiles)
        sorted == SortedStream(st.weightedAlignmentFile, st.counts)
        marginals == PhraseFreq(sorted)
    IN  [i \in 1..Len(sorted) |-> OutputRecord(sorted[i], marginals)]

(***************************************************************************)
(* Properties of align()                                                    *)
(***************************************************************************)
\* The phrases of a recorded alignment, read back from the characters that
\* align writes: per language the sequence of word ids.
PhrasesOf(stringToPrint, nbLanguages) ==
    LET parts == Split(stringToPrint, "\t", nbLanguages - 1)
    IN  [l \in 1..nbLanguages |->
            LET ws == Words(parts[l], <<>>)
            IN  [k \in 1..Len(ws) |-> IntHex(ws[k])]]

\* The words of a phrase, delimiter tokens (word id 0) left out.
PhraseWords(phrase) == SelectSeq(phrase, LAMBDA w : w # 0)

\* phrase is a run of consecutive words of line.
IsRunOf(phrase, line) ==
    \E start \in 1..Len(line) :
        /\ start + Len(phrase) - 1 <= Len(line)
        /\ SubSeq(line, start, start + Len(phrase) - 1) = phrase

FiltersHold(p) ==
    LET phrases == PhrasesOf(p.stringToPrint, Len(opt.contiguousFields))
        line == mem.corpus[p.lineId + 1]
    IN  /\ \A l \in 1..Len(phrases) :
              phrases[l] # <<>> =>
                  /\ opt.minSize <= Len(PhraseWords(phrases[l]))
                  /\ Len(PhraseWords(phrases[l])) <= opt.maxSize
                  /\ \A k \in 1..Len(phrases[l]) :
                        phrases[l][k] # 0 =>
                            mem.wordLanguages[phrases[l][k] + 1] = l - 1
        /\ Cardinality({l \in 1..Len(phrases) : phrases[l] # <<>>})
               >= opt.minLanguages
        /\ \A l \in 1..Len(phrases) :
              (opt.contiguousFields[l] /\ phrases[l] # <<>>) =>
                  IsRunOf(phrases[l], line)

\* C1: every alignment that an align call records, perfect or context, has
\* between minSize and maxSize words (delimiters not counted) in each of its
\* non-empty phrases, has a non-empty phrase in at least minLanguages
\* languages, and in every language that is not discontiguous its phrase is
\* a run of consecutive words of the source line.
C1_FiltersHold ==
    \A i \in 1..Len(hist.recorded) : FiltersHold(hist.recorded[i])

\* An align call has recorded a perfect and a context alignment, and an
\* alignment whose first phrase was emptied by the filters.
C1_Witness ==
    /\ mode = "unit"
    /\ opt.contiguousFields[1]
    /\ \E i, j, k \in 1..Len(hist.recorded) :
          /\ hist.recorded[i].perfect
          /\ ~hist.recorded[j].perfect
          /\ hist.recorded[k].positions[1] = <<>>
          /\ Len(hist.recorded[k].positions[2]) = 2

(***************************************************************************)
(* Reading the output: a record is                                          *)
(* <alignment> TAB <lexical weights> TAB <probabilities> TAB <frequency>.   *)
(***************************************************************************)
OutAlignment(rec) == RSplit(rec, "\t", 3)[1]

OutLexWeights(rec) == RSplit(rec, "\t", 3)[2]

OutFreq(rec) == IntDec(RSplit(rec, "\t", 3)[4])

\* The value of a probability written as d.dddddd, in millionths.
Micro(proba) ==
    LET parts == Split(proba, ".", -1)
    IN  1000000 * IntDec(parts[1]) + IntDec(parts[2])

\* The probabilities of a record, one per language, in millionths.
OutProbas(rec) ==
    LET ps == Split(RSplit(rec, "\t", 3)[3], " ", -1)
    IN  [l \in 1..Len(ps) |-> Micro(ps[l])]

\* The phrases of a record, one per language.
OutPhrases(rec) == Split(OutAlignment(rec), "\t", -1)

\* The fields of a record.
Parse(rec) ==
    LET parts == RSplit(rec, "\t", 3)
        probas == Split(parts[3], " ", -1)
    IN  [alignment |-> parts[1], phrases |-> Split(parts[1], "\t", -1),
         lexWeights |-> parts[2],
         probas |-> [l \in 1..Len(probas) |-> Micro(probas[l])],
         freq |-> IntDec(parts[4])]

RECURSIVE ParseAll(_)
ParseAll(out) == IF out = <<>> THEN <<>>
                 ELSE <<Parse(Head(out))>> \o ParseAll(Tail(out))

(***************************************************************************)
(* Properties of align mode                                                 *)
(***************************************************************************)
\* C2 as stated: the frequency of every alignment of the final output is the
\* sum, over the align calls that produced the alignment, of the weight of
\* the call.
C2_SumOverRounds ==
    pc = "done" =>
        LET recs == ParseAll(output)
        IN  \A i \in 1..Len(recs) : recs[i].freq = hist.roundSum[recs[i].alignment]

\* C2, amended: the frequency of every alignment of the final output is the
\* sum of the weight of the call over every time an align call produced the
\* alignment; a call that produces an alignment several times counts each.
C2_SumOverProductions ==
    (mode = "align" /\ pc \in {"write", "done"}) =>
        LET recs == ParseAll(output)
        IN  \A i \in 1..Len(recs) :
                /\ recs[i].alignment \in DOMAIN hist.prodSum
                /\ recs[i].freq = hist.prodSum[recs[i].alignment]

\* The run is over, after two completed rounds and a boundary correction,
\* and an alignment was produced more often than there were calls.
C2_Witness ==
    /\ mode = "align" /\ pc = "done"
    /\ hist.calls >= 2
    /\ \E i \in 1..Len(output) :
          /\ OutFreq(output[i]) > hist.roundSum[OutAlignment(output[i])]
          /\ hist.roundSum[OutAlignment(output[i])] >= 3

\* The corpus of the scenario: the line "le chat<TAB>the cat", repeated.
LeChatLine == << <<"le", "chat">>, <<"the", "cat">> >>

LeChatTheCat == <<"le", " ", "chat", "\t", "the", " ", "cat">>

Scenario ==
    /\ mode = "align"
    /\ \A i \in 1..Len(files[1]) : files[1][i] = LeChatLine
    /\ opt.minSize = 1 /\ opt.maxSize = 7 /\ opt.minLanguages = 2

IsLeChatRecord(rec) ==
    /\ OutAlignment(rec) = LeChatTheCat
    /\ OutProbas(rec) = <<1000000, 1000000>>
    /\ OutFreq(rec) >= 1

C8_InterruptRecovered == hist.exitCause = "interrupt" => pc # "error"

\* The main loop has just been left.
AtLoopExit ==
    \/ pc = "corr1" /\ loc.i = 0
    \/ pc = "weight" /\ Len(mem.corpus) <= 2
    \/ pc = "error" /\ error = "ZeroDivisionError"

\* C9 as stated: when an interrupt ends the main loop, the frequency store,
\* the record file and the alignment count are those left by the last align
\* call that returned.
C9_WholeCallsOnly ==
    (mode = "align" /\ hist.exitCause = "interrupt" /\ AtLoopExit) =>
        Snapshot = hist.committed

\* C10 as stated: when the timeout test ends the main loop, run() continues
\* normally.
C10_TimeoutContinues == hist.exitCause = "timeout" => pc # "error"

(***************************************************************************)
(* Properties of set_proba and of merge mode                                *)
(***************************************************************************)
\* The marginal frequency of the phrase of record i in column l: the sum of
\* the frequencies of the records with that phrase in that column.
Marginal(recs, i, l) ==
    SumSeq([j \in 1..Len(recs) |->
        IF recs[j].phrases[l] = recs[i].phrases[l] THEN recs[j].freq ELSE 0])

\* The sum of frequency x probability (in millionths) over those records.
WeightedProbaSum(recs, i, l) ==
    SumSeq([j \in 1..Len(recs) |->
        IF recs[j].phrases[l] = recs[i].phrases[l]
        THEN recs[j].freq * recs[j].probas[l] ELSE 0])

\* The sum of the probabilities (in millionths) over those records.
ProbaSum(recs, i, l) ==
    SumSeq([j \in 1..Len(recs) |->
        IF recs[j].phrases[l] = recs[i].phrases[l] THEN recs[j].probas[l] ELSE 0])

Abs(x) == IF x < 0 THEN -x ELSE x

\* C3 as stated: for every column and phrase the sum of frequency x
\* probability over the records with that phrase is the marginal frequency
\* of the phrase (up to the rounding of the probabilities).
C3_SumIsMarginal ==
    pc = "done" =>
        LET recs == ParseAll(output)
        IN  \A i \in 1..Len(recs) : \A l \in 1..Len(recs[i].phrases) :
                Abs(WeightedProbaSum(recs, i, l) - 1000000 * Marginal(recs, i, l))
                    <= Marginal(recs, i, l)

\* C3, amended: every probability of the output is the frequency of its
\* record divided by the marginal frequency of its phrase, rounded to six
\* decimals; so it is the probabilities of the records sharing a phrase that
\* sum to 1, up to rounding.
C3_ProbaIsShare ==
    pc = "done" =>
        LET recs == ParseAll(output)
        IN  \A i \in 1..Len(recs) : \A l \in 1..Len(recs[i].phrases) :
                /\ recs[i].probas[l] = MicroProba(recs[i].freq, Marginal(recs, i, l))
                /\ Abs(ProbaSum(recs, i, l) - 1000000) <= Len(recs)

\* Two records of different frequencies share a phrase.
C3_Witness ==
    /\ pc = "done"
    /\ \E i, j \in 1..Len(output) :
          /\ OutPhrases(output[i])[2] = OutPhrases(output[j])[2]
          /\ OutFreq(output[i]) > OutFreq(output[j])
          /\ OutProbas(output[j])[2] \notin {0, 1000000}
          /\ OutProbas(output[j])[1] = 1000000

\* The alignments of the lines of the record store, in the order of the store.
RECURSIVE StoreAlignments(_)
StoreAlignments(store) ==
    IF store = <<>> THEN <<>>
    ELSE <<AlignmentOf(Head(store))>> \o StoreAlignments(Tail(store))

\* C4: the records are handed to the writer by descending frequency: a
\* record's frequency is at least that of the record written after it, and
\* records of equal frequency are written in the order of the record store.
C4_DescendingFrequency ==
    LET recs == ParseAll(output)
        store == StoreAlignments(weightedAlignmentFile)
    IN  \A i \in 1..(Len(recs) - 1) :
            /\ recs[i].freq >= recs[i + 1].freq
            /\ recs[i].freq = recs[i + 1].freq =>
                   IndexOf(store, recs[i].alignment)
                       < IndexOf(store, recs[i + 1].alignment)

\* Three records written: two of equal frequency, then a less frequent
\* one that comes first in the record store.
C4_Witness ==
    /\ Len(output) >= 3
    /\ OutFreq(output[1]) = OutFreq(output[2])
    /\ OutFreq(output[2]) > OutFreq(output[3])
    /\ LET store == StoreAlignments(weightedAlignmentFile)
       IN  IndexOf(store, OutAlignment(output[3]))
               < IndexOf(store, OutAlignment(output[1]))

RecordOf(recs, alignment) == CHOOSE r \in Range(recs) : r.alignment = alignment

\* C5: merging a file given twice outputs the alignments that merging the
\* file alone outputs, each with twice the frequency and with the same
\* probabilities.
C5_MergeTwice ==
    (mode = "merge" /\ pc = "done" /\ Len(inputs) = 2 /\ inputs[1] = inputs[2]) =>
        LET twice == ParseAll(output)
            once == ParseAll(MergeOutput(<<inputs[1]>>))
        IN  /\ {r.alignment : r \in Range(twice)} = {r.alignment : r \in Range(once)}
            /\ Len(twice) = Len(once)
            /\ \A r \in Range(twice) :
                  LET r1 == RecordOf(once, r.alignment)
                  IN  /\ r.freq = 2 * r1.freq
                      /\ r.probas = r1.probas

\* A file of two lines with the same alignment was merged with itself.
C5_Witness ==
    /\ mode = "merge" /\ pc = "done"
    /\ Len(inputs) = 2 /\ inputs[1] = inputs[2]
    /\ Len(inputs[1]) = 2
    /\ OutAlignment(inputs[1][1]) = OutAlignment(inputs[1][2])
    /\ Len(output) = 1 /\ OutFreq(output[1]) = 26

\* The lines of all input files, in input order.
InputLines == ConcatAll(inputs)

\* C6: the input lines of one alignment are output as one record: its
\* frequency is the sum of their frequencies, its lexical weights are those
\* of the first of them, and its probabilities are computed from the merged
\* frequencies, not copied from the input.
C6_MergeSums ==
    (mode = "merge" /\ pc = "done") =>
        LET recs == ParseAll(output)
            ins == ParseAll(InputLines)
        IN  /\ {r.alignment : r \in Range(recs)} = {r.alignment : r \in Range(ins)}
            /\ Len(recs) = Cardinality({r.alignment : r \in Range(ins)})
            /\ \A i \in 1..Len(recs) :
                  LET same == SelectSeq(ins, LAMBDA r : r.alignment = recs[i].alignment)
                  IN  /\ recs[i].freq = SumSeq([k \in 1..Len(same) |-> same[k].freq])
                      /\ recs[i].lexWeights = same[1].lexWeights
                      /\ \A l \in 1..Len(recs[i].phrases) :
                            /\ 1000000 * recs[i].freq
                                   >= (recs[i].probas[l] - 1) * Marginal(recs, i, l)
                            /\ 1000000 * recs[i].freq
                                   <= (recs[i].probas[l] + 1) * Marginal(recs, i, l)

\* Two files held the same alignment with different lexical weights and
\* probabilities, and another alignment that shares a phrase with it.
C6_Witness ==
    /\ mode = "merge" /\ pc = "done"
    /\ Len(inputs) = 2
    /\ Len(output) = 2
    /\ \E i, j \in 1..Len(InputLines) :
          /\ i < j
          /\ OutAlignment(InputLines[i]) = OutAlignment(InputLines[j])
          /\ OutLexWeights(InputLines[i]) # OutLexWeights(InputLines[j])
          /\ OutProbas(InputLines[i]) # OutProbas(InputLines[j])
    /\ OutProbas(output[2]) # <<1000000, 1000000>>

(***************************************************************************)
(* Properties of the main loop of run()                                     *)
(***************************************************************************)
\* The loop test `speed > nbNewAlignments` fails only on a speed that was
\* measured, and never with the default threshold -1.
ExitOnMeasuredSpeed ==
    (mode = "align" /\ hist.exitCause = "speed") =>
        /\ hist.rate # -1
        /\ loc.speed <= options.nb_al
        /\ options.nb_al # -1

\* C11 as stated: the speed that the loop test compares with the threshold
\* is the number of alignments recorded since the previous measurement (or
\* since run() began), per second elapsed, rounded up.
C11_RateIsNewPerSecond ==
    (mode = "align" /\ hist.rate # -1) => loc.speed = hist.rate

\* Control is in run(), between the start of the main loop and the weight
\* function.
InRun == mode = "align" /\ pc \in {"loop", "count", "align", "print", "incr",
                                   "corr1", "weight"}

\* C12: the size drawn for a round of the main loop lies in 2 .. nbLines-1
\* when more than 2 lines are loaded and in 1 .. nbLines otherwise, it never
\* exceeds MAX_SUBCORPUS_SIZE, and Distribution.next returns a value of
\* start .. end whatever random.random() returns.
C12_SizeInRange ==
    InRun =>
        LET nbLines == Len(mem.corpus)
            d == SizeDistribution(nbLines)
        IN  /\ loc.subcorpusSize # 0 =>
                  /\ nbLines > 2 => loc.subcorpusSize \in 2..(nbLines - 1)
                  /\ nbLines <= 2 => loc.subcorpusSize \in 1..nbLines
                  /\ loc.subcorpusSize <= MAX_SUBCORPUS_SIZE
            /\ \A r \in RandomValues :
                  DistributionNext(d, r) \in d.start..(d.start + d.nbVal - 1)

\* A round on two of three loaded lines is in progress.
C12_Witness ==
    /\ mode = "align" /\ pc = "align"
    /\ Len(mem.corpus) = 3
    /\ loc.subcorpusSize = 2
    /\ Len(call.lineIds) = 2

\* An align call of the main loop is in progress.
InMainLoopCall == mode = "align" /\ pc \in {"align", "print", "incr"}

\* C13 as stated: the line ids that align receives in a round of the main
\* loop are subcorpusSize distinct line ids of the loaded subcorpus, in
\* ascending order.
C13_SortedSample ==
    InMainLoopCall =>
        /\ Len(call.lineIds) = loc.subcorpusSize
        /\ \A i \in 1..Len(call.lineIds) : call.lineIds[i] \in 0..(Len(mem.corpus) - 1)
        /\ \A i, j \in 1..Len(call.lineIds) : i < j => call.lineIds[i] < call.lineIds[j]

\* C13, amended: the line ids that align receives in a round of the main loop
\* are subcorpusSize distinct line ids of the loaded subcorpus (a sample
\* without replacement), in the order in which random.sample returns them.
C13_DistinctSample ==
    InMainLoopCall =>
        /\ Len(call.lineIds) = loc.subcorpusSize
        /\ \A i \in 1..Len(call.lineIds) : call.lineIds[i] \in 0..(Len(mem.corpus) - 1)
        /\ \A i, j \in 1..Len(call.lineIds) : i # j => call.lineIds[i] # call.lineIds[j]

\* align received the third and the first of three loaded lines, in that
\* order.
C13_Witness ==
    /\ InMainLoopCall
    /\ Len(mem.corpus) = 3
    /\ call.lineIds = <<2, 0>>

\* floor(W) for a correction weight W = nb2 * ratio.
FloorWeight(nb2, ratio) == (nb2 * ratio[1]) \div ratio[2]

InconsistentColumns(fs) ==
    \E f \in 1..Len(fs) : \E i \in 1..Len(fs[f]) : Len(fs[f][i]) # Len(fs[f][1])

\* Two files have different numbers of lines.
DifferentLineCounts(fs) ==
    \E f, g \in 1..Len(fs) : Len(fs[f]) # Len(fs[g])

\* Two files have different numbers of columns.
DifferentColumnCounts(fs) ==
    \E f, g \in 1..Len(fs) : Len(fs[f][1]) # Len(fs[g][1])

\* Nothing was loaded, sampled or aggregated.
NothingDone ==
    /\ mem = <<>>
    /\ counts = <<>> /\ nbAlignments = 0
    /\ tmpFile = <<>> /\ weightedAlignmentFile = <<>>
    /\ loc = NoLoc /\ todo = <<>>
    /\ stream = <<>> /\ output = <<>>

\* C15: when a file has a line whose number of columns differs from that of
\* its first line, or two files have different numbers of lines, the program
\* ends with an error while it reads the files: set_corpus, run and set_proba
\* are never called.
C15_MalformedAborts ==
    (mode = "align" /\ (InconsistentColumns(files) \/ DifferentLineCounts(files))) =>
        /\ pc \in {"start", "error"}
        /\ pc = "error" => error = "AssertionError"
        /\ NothingDone

\* The program ended on a file whose second line lacks a column.
C15_Witness ==
    /\ mode = "align" /\ pc = "error" /\ error = "AssertionError"
    /\ Len(files) = 1
    /\ InconsistentColumns(files)
    /\ NothingDone

\* C16 as stated: when two files have different numbers of columns (each
\* file consistent, all files of the same number of lines), loading fails
\* and sampling does not begin.
C16_ColumnCountsMustAgree ==
    (/\ mode = "align"
     /\ DifferentColumnCounts(files)
     /\ ~InconsistentColumns(files) /\ ~DifferentLineCounts(files)) =>
        pc \in {"start", "error"}

\* C16, amended: files that are each consistent and have the same number of
\* lines are accepted whatever their numbers of columns: the corpus has the
\* columns of all files side by side (nbLanguages is the sum of the column
\* counts) and the program goes on to sampling.
C16_ColumnsAddUp ==
    (/\ mode = "align" /\ pc # "start"
     /\ ~InconsistentColumns(files) /\ ~DifferentLineCounts(files)) =>
        /\ error # "AssertionError"
        /\ Len(opt.contiguousFields) = SumSeq([f \in 1..Len(files) |-> Len(files[f][1])])
        /\ pc \in {"loop", "count", "align", "print", "incr", "corr1", "weight"} =>
              \A i \in 1..Len(mem.corpus) :
                  {mem.wordLanguages[mem.corpus[i][k] + 1] : k \in 1..Len(mem.corpus[i])}
                      = 0..(Len(opt.contiguousFields) - 1)

\* A file of two columns and a file of one column were aligned: the output
\* holds an alignment of three phrases.
C16_Witness ==
    /\ mode = "align" /\ pc = "done"
    /\ Len(files) = 2
    /\ DifferentColumnCounts(files)
    /\ Len(output) = 1
    /\ Len(OutPhrases(output[1])) = 3

(***************************************************************************)
(* Properties of set_corpus; hist.selection holds the loaded line numbers   *)
(***************************************************************************)
\* The words of loaded line i (1-based) as <<language, word>>, read from the
\* input: the columns of all files side by side.
InputLineWords(i) ==
    ConcatAll([f \in 1..Len(files) |->
        LineOccs(files[f][hist.selection[i] + 1], LangsBefore(files, f))])

\* set_corpus has loaded a subcorpus.
Loaded == mode = "unit" /\ hist.selection # <<>>

\* Word id w as <<language, word>>.
WordOfId(w) == <<mem.wordLanguages[w + 1], mem.allWords[w + 1]>>

\* The rank at which set_corpus first reads word id w: it reads file after
\* file, and in a file line after line.
FirstSeen(w) ==
    LET occs == AllOccs(files, hist.selection)
    IN  Min({k \in 1..Len(occs) : occs[k] = WordOfId(w)})

\* C17: after set_corpus the frequencies do not increase with the word id;
\* the frequency of a word is the number of loaded lines that contain it;
\* allWords, wordLanguages, wordFreq and the corpus were renumbered together
\* (each line of the corpus still spells the words of the input line, in
\* their languages); words of equal frequency are in first-sight order.
\* Word id 0 is the delimiter; the counts are those of the ids of words.
C17_SortedByFrequency ==
    Loaded =>
        LET n == Len(mem.allWords)
        IN  /\ Len(mem.wordFreq) = n /\ Len(mem.wordLanguages) = n
            /\ \A i, j \in 0..(n - 1) :
                  i < j => mem.wordFreq[i + 1] >= mem.wordFreq[j + 1]
            /\ \A w \in 1..(n - 1) :
                  mem.wordFreq[w + 1] =
                      Cardinality({i \in 1..Len(hist.selection) :
                                      WordOfId(w) \in Range(InputLineWords(i))})
            /\ Len(mem.corpus) = Len(hist.selection)
            /\ \A i \in 1..Len(hist.selection) :
                  [k \in 1..Len(mem.corpus[i]) |-> WordOfId(mem.corpus[i][k])]
                      = InputLineWords(i)
            /\ \A v, w \in 1..(n - 1) :
                  (v < w /\ mem.wordFreq[v + 1] = mem.wordFreq[w + 1]) =>
                      FirstSeen(v) < FirstSeen(w)

\* set_corpus renumbered the words: a word of two lines got a smaller id
\* than a word of one line that was read before it, and two words of equal
\* frequency kept their order.
C17_Witness ==
    /\ Loaded /\ pc = "ready"
    /\ \E v, w \in 1..(Len(mem.allWords) - 1) :
          /\ v < w
          /\ mem.wordFreq[v + 1] = 2 /\ mem.wordFreq[w + 1] = 1
          /\ FirstSeen(v) > FirstSeen(w)
    /\ \E v, w \in 1..(Len(mem.allWords) - 1) :
          /\ v < w
          /\ mem.wordFreq[v + 1] = 2 /\ mem.wordFreq[w + 1] = 2

\* The words of phrase l of a recorded alignment, read from its string.
AlStringWords(p, l) ==
    Words(Split(p.alString, "\t", Len(opt.contiguousFields) - 1)[l], <<>>)

\* C18: after set_corpus word id 0 is the delimiter: allWords[0] is the
\* delimiter, wordFreq[0] = wordFreq[1] + 1, no line of the corpus holds id
\* 0, and where align puts id 0 in a phrase the string of the alignment has
\* the delimiter.
C18_DelimiterIsWordZero ==
    Loaded =>
        /\ mem.allWords[1] = opt.delimiter
        /\ mem.wordLanguages[1] = Len(opt.contiguousFields)
        /\ mem.wordFreq[1] = mem.wordFreq[2] + 1
        /\ \A i \in 1..Len(mem.corpus) : 0 \notin Range(mem.corpus[i])
        /\ \A i \in 1..Len(hist.recorded) :
              LET p == hist.recorded[i]
                  ids == PhrasesOf(p.stringToPrint, Len(opt.contiguousFields))
              IN  \A l \in 1..Len(ids) :
                      /\ Len(AlStringWords(p, l)) = Len(ids[l])
                      /\ \A k \in 1..Len(ids[l]) :
                            ids[l][k] = 0 =>
                                /\ opt.delimiter # ""
                                /\ AlStringWords(p, l)[k] = <<opt.delimiter>>

\* An align call recorded a discontiguous phrase with the delimiter "_", on
\* a corpus whose most frequent word is on two lines.
C18_Witness ==
    /\ Loaded /\ pc = "returned"
    /\ opt.delimiter = "_"
    /\ Len(hist.selection) < NbLines(files)
    /\ mem.wordFreq[1] = 3
    /\ \E i \in 1..Len(hist.recorded) :
          \E l \in 1..Len(hist.recorded[i].candidate) :
              0 \in Range(hist.recorded[i].candidate[l])

(***************************************************************************)
(* Properties of Aligner._lexical_weight                                   *)
(***************************************************************************)
\* The word ids of the loaded vocabulary, the delimiter included.
WordIds == 0..(Len(mem.wordFreq) - 1)

\* C19: in _lexical_weight a word id is below the hapax cutoff FH exactly
\* when its frequency is above 1; the co-occurrence database has arrays only
\* for source words of frequency above 1 of a language other than the last,
\* and its arrays hold only target words of frequency above 1 (of a later
\* language than the source word, each with a joint frequency).
C19_HapaxCutoff ==
    (Loaded /\ options.weight) =>
        LET nbLanguages == Len(opt.contiguousFields)
            FH == FirstHapax(mem.wordFreq)
            db == CoocDB(mem, FH, nbLanguages)
        IN  /\ \A w \in WordIds : (w < FH) <=> (mem.wordFreq[w + 1] > 1)
            /\ Len(db.pairs) = FH /\ Len(db.freqs) = FH
            /\ \A sw \in 0..(FH - 1) :
                  db.pairs[sw + 1] # <<>> =>
                      /\ mem.wordFreq[sw + 1] > 1
                      /\ mem.wordLanguages[sw + 1] # nbLanguages - 1
                      /\ Len(db.freqs[sw + 1]) = Len(db.pairs[sw + 1])
                      /\ \A k \in 1..Len(db.pairs[sw + 1]) :
                            LET tw == db.pairs[sw + 1][k]
                            IN  /\ tw \in WordIds
                                /\ mem.wordFreq[tw + 1] > 1
                                /\ mem.wordLanguages[tw + 1]
                                       > mem.wordLanguages[sw + 1]

\* _lexical_weight has run on a vocabulary that has hapaxes and words of
\* several lines, and the database has a source word with two target words
\* and source words of two languages.
C19_Witness ==
    /\ Loaded /\ options.weight /\ pc = "weighted"
    /\ LET nbLanguages == Len(opt.contiguousFields)
           FH == FirstHapax(mem.wordFreq)
           db == CoocDB(mem, FH, nbLanguages)
       IN  /\ 1 < FH /\ FH < Len(mem.wordFreq)
           /\ \E sw \in 0..(FH - 1) : Len(db.pairs[sw + 1]) = 2
           /\ \E sw, sv \in 0..(FH - 1) :
                 /\ db.pairs[sw + 1] # <<>> /\ db.pairs[sv + 1] # <<>>
                 /\ mem.wordLanguages[sw + 1] # mem.wordLanguages[sv + 1]

\* The loaded lines that hold the word of id w, read from the input.
LinesWith(w) ==
    {i \in 1..Len(hist.selection) : WordOfId(w) \in Range(InputLineWords(i))}

\* J(sw, tw) and F(sw), counted on the loaded lines of the input.
JointFreq(sw, tw) == Cardinality(LinesWith(sw) \cap LinesWith(tw))

LineFreq(sw) == Cardinality(LinesWith(sw))

\* The phrases of record i of the temporary file without the delimiter.
StoredPhrases(i) ==
    LET alignment0 == Alignment0(tmpFile[i], Len(opt.contiguousFields))
    IN  [l \in 1..Len(alignment0) |-> SelectSeq(alignment0[l], LAMBDA w : w # 0)]

\* The words of the phrases of record i in the languages other than l.
OtherWords(i, l) ==
    UNION {Range(StoredPhrases(i)[m]) : m \in (1..Len(StoredPhrases(i))) \ {l}}

\* The weights written for record i, one per language.
EmittedWeights(i) ==
    Words(Split(weightedAlignmentFile[i], "\t",
                Len(opt.contiguousFields))[Len(opt.contiguousFields) + 1], <<>>)

\* The weight function has run after set_corpus and align.
Weighted == Loaded /\ options.weight /\ pc = "weighted"

LexicalWeightNeverFails == pc # "error"

(***************************************************************************)
(* Properties of the writer protocol of set_proba                           *)
(***************************************************************************)
\* writer.write has raised IOError.
WriteFailed == "write raises IOError" \in Range(writer)

\* C21: when the writer raises an I/O error while a record is emitted in pass
\* 3, set_proba makes no further call of the writer (no write, no
\* terminate), the error does not reach its caller, and its temporary sorted
\* file is closed.
C21_WriteFailureRecovered ==
    WriteFailed =>
        /\ writer[Len(writer)] = "write raises IOError"
        /\ \A i \in 1..(Len(writer) - 1) : writer[i] = "write"
        /\ Len(output) = Len(writer) - 1
        /\ pc = "cut" /\ error = ""
        /\ probaTmpFile = "closed"

\* The second write of a store of two records or more has failed.
C21_Witness ==
    /\ WriteFailed
    /\ Len(writer) = 2
    /\ Len(stream) >= 1
    /\ Len(output) = 1

\* C30: with an empty record store set_proba calls neither writer.write nor
\* writer.terminate; otherwise, when no write fails, it calls writer.write
\* once per record of the store and then writer.terminate once, after the
\* last write.
C30_WriterProtocol ==
    LET n == Len(weightedAlignmentFile)
    IN  /\ (pc = "done" /\ n = 0) => writer = <<>>
        /\ (pc = "done" /\ n > 0) =>
               /\ Len(writer) = n + 1
               /\ \A i \in 1..n : writer[i] = "write"
               /\ writer[n + 1] = "terminate"
               /\ Len(output) = n
        /\ (pc = "write" /\ ~WriteFailed) =>
               /\ Len(writer) = n - Len(stream)
               /\ \A i \in 1..Len(writer) : writer[i] = "write"
        /\ pc \notin {"write", "done", "cut"} => writer = <<>>

\* set_proba has ended on a store of two records or more, in align mode.
C30_Witness ==
    /\ pc = "done" /\ mode = "align"
    /\ Len(weightedAlignmentFile) >= 2
    /\ writer[Len(writer)] = "terminate"

(***************************************************************************)
(* Properties of the partitions of Aligner.__init__                        *)
(***************************************************************************)
\* The number of partitions for n lines with at most m lines in memory.
NbPartitions(n, m) == IF m < 1 THEN 1 ELSE (n + m - 1) \div m

\* The partitions are over and set_proba has been reached.
AllPartitionsDone == mode = "align" /\ pc \in {"proba", "write", "done", "cut"}

\* C22: with at most m >= 1 lines in memory and n >= 1 lines the corpus is
\* processed in ceil(n / m) partitions that are pairwise disjoint, hold every
\* line once, hold between 1 and m lines each and are sorted before loading;
\* with m < 1 there is one partition of all lines.  set_proba runs once,
\* after the last partition.
C22_Partitions ==
    (mode = "align" /\ pc \notin {"start", "init", "error"}) =>
        LET n == NbLines(files)
            m == options.nb_sent
            parts == hist.partitions
        IN  /\ \A p \in 1..Len(parts) :
                  /\ Len(parts[p]) >= 1
                  /\ m >= 1 => Len(parts[p]) <= m
                  /\ m < 1 => Len(parts[p]) = n
                  /\ \A i \in 1..(Len(parts[p]) - 1) : parts[p][i] < parts[p][i + 1]
                  /\ Range(parts[p]) \subseteq 0..(n - 1)
                  /\ \A q \in 1..Len(parts) :
                        p # q => Range(parts[p]) \cap Range(parts[q]) = {}
            /\ Len(parts) <= NbPartitions(n, m)
            /\ AllPartitionsDone =>
                  /\ Len(parts) = NbPartitions(n, m)
                  /\ UNION {Range(parts[p]) : p \in 1..Len(parts)} = 0..(n - 1)
            /\ hist.probaRuns = (IF pc \in {"write", "done", "cut"} THEN 1 ELSE 0)
            /\ hist.probaRuns = 0 => (writer = <<>> /\ output = <<>>)

\* Three lines have been processed in two partitions of at most two lines,
\* the shuffle was not the identity, and set_proba has run.
C22_Witness ==
    /\ mode = "align" /\ pc = "done"
    /\ NbLines(files) = 3 /\ options.nb_sent = 2
    /\ Len(hist.partitions) = 2
    /\ hist.partitions[1] = <<0, 2>>
    /\ hist.probaRuns = 1

(***************************************************************************)
(* Properties of the groups of align                                        *)
(***************************************************************************)
\* An align call on its own has returned.
CallReturned == mode = "unit" /\ pc \in {"returned", "weighted"}

\* The groups of the units of order n alone, built from an empty vec_word.
GroupsOfOrder(lineIds, n) ==
    IF n = 1
    THEN GroupWords(<<>>, UnitsOf(lineIds, mem.corpus), lineIds, mem.corpus)
    ELSE GroupNgrams(<<>>, UnitsOf(lineIds, mem.ngramCorpora[n]), lineIds,
                     mem.ngramCorpora[n], mem.allNgrams[n])

\* How many of the productions prods are the alignment alString.
TimesProduced(prods, alString) ==
    Cardinality({i \in 1..Len(prods) : prods[i].alString = alString})

\* C23 as stated: within one align call the groups examined for the order n
\* are the groups of the units of order n alone, so that the alignments of a
\* group of a lower order are not counted again at a higher order.
C23_GroupsRebuilt ==
    CallReturned =>
        LET rebuilt == ConcatAll([n \in 1..opt.indexN |->
                           GroupsProductions(mem, opt, GroupsOfOrder(call.lineIds, n))])
        IN  /\ \A n \in 1..opt.indexN :
                  Range(VecWord(mem, call.lineIds, n))
                      = Range(GroupsOfOrder(call.lineIds, n))
            /\ \A i \in 1..Len(hist.recorded) :
                  TimesProduced(hist.recorded, hist.recorded[i].alString)
                      = TimesProduced(rebuilt, hist.recorded[i].alString)

\* The number of jumps before the k-th retained position of pos: pairs of
\* consecutive retained positions that are not adjacent in the line.
JumpsBefore(pos, k) ==
    Cardinality({j \in 1..(k - 1) : pos[j + 1] # pos[j] + 1})

\* C24: in every recorded alignment the delimiter id 0 stands exactly between
\* two consecutive retained words whose positions in the line are not
\* adjacent, and only when a delimiter is configured; it is never first or
\* last in a phrase, never twice in a row, and never in a phrase of a
\* language that is not discontiguous.
C24_DelimiterBetweenJumps ==
    \A i \in 1..Len(hist.recorded) :
        LET p == hist.recorded[i]
            words == mem.corpus[p.lineId + 1]
            ids == PhrasesOf(p.stringToPrint, Len(opt.contiguousFields))
        IN  \A l \in 1..Len(ids) :
                LET pos == p.positions[l]
                    jumps == IF opt.delimiter # "" THEN JumpsBefore(pos, Len(pos))
                             ELSE 0
                    place(k) == k + (IF opt.delimiter # "" THEN JumpsBefore(pos, k)
                                     ELSE 0)
                IN  /\ Len(ids[l]) = Len(pos) + jumps
                    /\ \A k \in 1..Len(pos) : ids[l][place(k)] = words[pos[k] + 1]
                    /\ \A j \in 1..Len(ids[l]) :
                          j \notin {place(k) : k \in 1..Len(pos)} => ids[l][j] = 0
                    /\ \A j \in 1..Len(ids[l]) :
                          ids[l][j] = 0 =>
                              /\ opt.delimiter # ""
                              /\ ~opt.contiguousFields[l]
                              /\ 1 < j /\ j < Len(ids[l])
                              /\ ids[l][j - 1] # 0 /\ ids[l][j + 1] # 0

\* An align call has recorded, with a delimiter and the second language
\* contiguous, a phrase with the delimiter in the first language; the filters
\* let the words of two languages through.
C24_Witness ==
    /\ mode = "unit" /\ pc = "returned"
    /\ opt.delimiter = "_"
    /\ opt.contiguousFields = <<FALSE, TRUE>>
    /\ \E i \in 1..Len(hist.recorded) :
          /\ 0 \in Range(hist.recorded[i].candidate[1])
          /\ hist.recorded[i].candidate[2] # <<>>

(***************************************************************************)
(* Properties of the running count self.nbAlignments                       *)
(***************************************************************************)
\* An align call has just been completed: a call on its own, a call of the
\* main loop (the store, the record file and the count are as it left
\* them) or a call of the boundary corrections.
BetweenCalls ==
    \/ mode = "unit" /\ pc = "returned"
    \/ mode = "align" /\ pc = "loop" /\ hist.calls >= 1 /\ Snapshot = hist.committed
    \/ mode = "align" /\ pc \in {"corr1", "weight"} /\ hist.corr # <<>>

\* The records written so far to the record files.
RecordsWritten == Len(weightedAlignmentFile) + Len(tmpFile)

\* C25 as stated: after every completed align call, in any round and any
\* partition, nbAlignments is the number of entries of the frequency store
\* and the number of records written so far to the record files.
C25_CountMatchesStore ==
    BetweenCalls =>
        /\ nbAlignments = Cardinality(DOMAIN counts)
        /\ nbAlignments = RecordsWritten

\* The same when no KeyboardInterrupt has cut an align call between the
\* update of the store and the increment of the count (hist.cut).
CountMatchesStoreUncut == (BetweenCalls /\ ~hist.cut) => C25_CountMatchesStore

\* The calls coocDb.get(sw, tw) that the weight function makes for record i
\* of the temporary file (lines 1326-1336): pairs of a word of a phrase and
\* a word of a phrase of a later language, both below FH.
GetCalls(i) ==
    LET FH == FirstHapax(mem.wordFreq)
        al == StoredPhrases(i)
        below(l) == {w \in Range(al[l]) : w < FH}
    IN  UNION {below(l) \X below(m) :
                  <<l, m>> \in {q \in (1..Len(al)) \X (1..Len(al)) : q[1] < q[2]}}

\* C26: CoocDB.get(s, t) returns the count that add(s, cooc) was given for t,
\* for every source word s that was added and every t of cooc; and the
\* weight function calls get only for pairs that were added, so that no
\* lookup misses its source word, passes the end of the arrays or reads the
\* count of a neighbouring target word.
C26_GetReturnsAdded ==
    (Loaded /\ options.weight) =>
        LET nbLanguages == Len(opt.contiguousFields)
            FH == FirstHapax(mem.wordFreq)
            db == CoocDB(mem, FH, nbLanguages)
            added == {sw \in SourceWords(mem, FH, nbLanguages) :
                         DOMAIN CoocOf(mem, FH, sw) # {}}
        IN  /\ \A sw \in added :
                  \A tw \in DOMAIN CoocOf(mem, FH, sw) :
                      CoocGet(db, sw, tw) = CoocOf(mem, FH, sw)[tw]
            /\ \A i \in 1..Len(tmpFile) :
                  \A c \in GetCalls(i) :
                      /\ c[1] \in added
                      /\ c[2] \in DOMAIN CoocOf(mem, FH, c[1])
                      /\ CoocGet(db, c[1], c[2]) = JointFreq(c[1], c[2])
            /\ pc # "error"

\* The weight function has looked up the second target word of a source word
\* that has two.
C26_Witness ==
    /\ Weighted
    /\ LET db == CoocDB(mem, FirstHapax(mem.wordFreq), Len(opt.contiguousFields))
       IN  \E i \in 1..Len(tmpFile) :
               \E c \in GetCalls(i) :
                   /\ Len(db.pairs[c[1] + 1]) = 2
                   /\ db.pairs[c[1] + 1][2] = c[2]
                   /\ db.freqs[c[1] + 1][1] # db.freqs[c[1] + 1][2]

(***************************************************************************)
(* Numerical properties of the output of set_proba                          *)
(***************************************************************************)
\* The records of the output with the phrase of record i in column l.
Sharing(recs, i, l) == {j \in 1..Len(recs) : recs[j].phrases[l] = recs[i].phrases[l]}

\* Every frequency of the output is positive, every marginal is at least the
\* frequency of the record, and every probability is above 0 and at most 1.
ProbasWellFormed(recs) ==
    \A i \in 1..Len(recs) :
        /\ recs[i].freq >= 1
        /\ \A l \in 1..Len(recs[i].phrases) :
              /\ Marginal(recs, i, l) >= recs[i].freq
              /\ 0 < recs[i].probas[l] /\ recs[i].probas[l] <= 1000000

\* C27 as stated: frequencies are positive, probabilities are in (0, 1], and
\* for each column and phrase the probabilities of the output records that
\* share the phrase sum to 1.
C27_ProbasSumToOne ==
    pc = "done" =>
        LET recs == ParseAll(output)
        IN  /\ ProbasWellFormed(recs)
            /\ \A i \in 1..Len(recs) : \A l \in 1..Len(recs[i].phrases) :
                  ProbaSum(recs, i, l) = 1000000

\* C27, amended: frequencies are positive, probabilities are in (0, 1], and
\* for each column and phrase the probabilities of the k output records that
\* share the phrase, each rounded to six decimals, sum to 1 within k halves
\* of a millionth.
C27_ProbasSumToOneRounded ==
    pc = "done" =>
        LET recs == ParseAll(output)
        IN  /\ ProbasWellFormed(recs)
            /\ \A i \in 1..Len(recs) : \A l \in 1..Len(recs[i].phrases) :
                  2 * Abs(ProbaSum(recs, i, l) - 1000000)
                      <= Cardinality(Sharing(recs, i, l))

\* Three records of frequency 1 share a phrase: each has the probability
\* 0.333333.
C27_Witness ==
    /\ pc = "done"
    /\ LET recs == ParseAll(output)
       IN  \E i \in 1..Len(recs) :
               /\ Cardinality(Sharing(recs, i, 1)) = 3
               /\ \A j \in Sharing(recs, i, 1) : recs[j].probas[1] = 333333

(***************************************************************************)
(* Round trip of a record: align, the weight function, pass 1 of set_proba  *)
(***************************************************************************)
\* The productions of the call that wrote record i of the temporary file.
WritersOf(i) ==
    {k \in 1..Len(hist.recorded) : hist.recorded[k].stringToPrint = tmpFile[i]}

\* C28: for every alignment that align wrote in hexadecimal, the string that
\* the weight function (_dummy_weight or _lexical_weight) appends to the
\* record store has before its last tab the string whose length and hash
\* keyed the frequency store in align, empty phrases and delimiters
\* included; so pass 1 of set_proba finds a frequency for every record.
C28_RecordRoundTrip ==
    (Loaded /\ pc = "weighted") =>
        /\ Len(weightedAlignmentFile) = Len(tmpFile)
        /\ \A i \in 1..Len(tmpFile) :
              /\ WritersOf(i) # {}
              /\ \A k \in WritersOf(i) :
                    AlignmentOf(weightedAlignmentFile[i]) = hist.recorded[k].alString
              /\ Key(AlignmentOf(weightedAlignmentFile[i])) \in DOMAIN counts
        /\ ~Pass1KeyError(weightedAlignmentFile, counts)

\* _dummy_weight has converted a record with an empty phrase and a record
\* with a delimiter.
C28_Witness ==
    /\ Loaded /\ pc = "weighted" /\ ~options.weight
    /\ \E i, j \in 1..Len(tmpFile) :
          /\ \E l \in 1..Len(StoredPhrases(i)) : StoredPhrases(i)[l] = <<>>
          /\ "_" \in Range(AlignmentOf(weightedAlignmentFile[j]))

\* Pass 1 of set_proba never fails on a missing frequency.
Pass1FindsEveryRecord == error # "KeyError"

(***************************************************************************)
(* The order of the line ids of an align call                               *)
(***************************************************************************)
\* The orderings of the line ids of the call.
Orderings(lineIds) ==
    {s \in Samples(Len(mem.corpus)) :
        Len(s) = Len(lineIds) /\ Range(s) = Range(lineIds)}

\* What the call would have left in a new store, had it received ids.
CallOn(ids) ==
    RecordAll([counts |-> <<>>, tmpFile |-> <<>>, nbAlignments |-> 0],
              Productions(mem, opt, ids), call.weight)

\* C29: the result of an align call does not depend on the order of its
\* line ids: every ordering of the same distinct ids produces every
\* alignment the same number of times, hence writes the same set of records
\* and adds the same frequencies; only the order of the records may differ.
C29_OrderIndependent ==
    (mode = "unit" /\ pc = "returned") =>
        \A ids \in Orderings(call.lineIds) :
            /\ \A k \in 1..Len(hist.recorded) :
                  TimesProduced(Productions(mem, opt, ids), hist.recorded[k].alString)
                      = TimesProduced(hist.recorded, hist.recorded[k].alString)
            /\ Len(Productions(mem, opt, ids)) = Len(hist.recorded)
            /\ CallOn(ids).counts = counts
            /\ Range(CallOn(ids).tmpFile) = Range(tmpFile)
            /\ CallOn(ids).nbAlignments = nbAlignments

\* A call on several line ids that are not in ascending order has written
\* records, and another ordering would have written them in another order.
C29_Witness ==
    /\ mode = "unit" /\ pc = "returned"
    /\ Len(call.lineIds) >= 2
    /\ call.lineIds[1] > call.lineIds[2]
    /\ Len(tmpFile) >= 2
    /\ \E ids \in Orderings(call.lineIds) : CallOn(ids).tmpFile # tmpFile

====
